---- MODULE Spec2Model ----
(***************************************************************************)
(* Leaf texture editor of worldify-materials: leaf-region extraction,     *)
(* the placement model of the editor, and the per-layer compositor.        *)
(*                                                                         *)
(* Conventions                                                             *)
(*  - a position (x, y) of a placed leaf is a JavaScript number; the model  *)
(*    keeps it as an exact reduced fraction <<n, d>> (d >= 1);              *)
(*  - scale is kept in tenths (the scale control has step 0.1): 10 is 1.0;  *)
(*  - rotation is in whole degrees (the rotation control has step 1);      *)
(*  - a pixel is <<r, g, b, a>>, 8 bits per sample;                         *)
(*  - a canvas is observed at the pixels of Probes (compositing is         *)
(*    independent per pixel, so this is a projection of the full buffer).  *)
(***************************************************************************)
EXTENDS Integers, Sequences, FiniteSets, TLC

(***************************************************************************)
(* Program constants                                                       *)
(***************************************************************************)
OUTPUT_SIZE == 1024
DefaultThreshold == 128
DefaultMinArea == 500
AutoPadding == 2
SelectPadding == 4
DuplicateOffset == 50

(***************************************************************************)
(* Bounds of the model                                                     *)
(***************************************************************************)
MaxSrc == 5
MaxPad == 3
MaxClock == 1
MaxPlaced == 3
MaxDuplicates == 2
MaxAdded == 2
MaxPending == 2

(***************************************************************************)
(* Arithmetic helpers                                                      *)
(***************************************************************************)
Max(a, b) == IF a >= b THEN a ELSE b
Min(a, b) == IF a <= b THEN a ELSE b
Abs(a) == IF a < 0 THEN -a ELSE a

RECURSIVE Gcd(_, _)
Gcd(a, b) == IF b = 0 THEN a ELSE Gcd(b, a % b)

\* The number n/d (d > 0) as a reduced fraction.
Rat(n, d) ==
  LET g == Gcd(Abs(n), d)
  IN  IF n = 0 THEN <<0, 1>> ELSE <<n \div g, d \div g>>

RatAddInt(q, k) == Rat(q[1] + k * q[2], q[2])

\* Math.ceil(Math.sqrt(n)) for n >= 0: the least c with c*c >= n.
CeilSqrt(n) == CHOOSE c \in 0..n : c * c >= n /\ \A b \in 0..n : b * b >= n => c <= b

(***************************************************************************)
(* extractLeafRegion (canvasUtils.ts): the rectangle of the source that is *)
(* copied, and so the size of the canvas it returns.                       *)
(***************************************************************************)
ExtractLeafRegionUnclamped(sw, sh, bounds, padding) ==
  LET x == Max(0, bounds.x - padding)
      y == Max(0, bounds.y - padding)
  IN  [x |-> x, y |-> y,
       w |-> bounds.width + padding * 2,
       h |-> bounds.height + padding * 2]

ExtractLeafRegion(sw, sh, bounds, padding) ==
  LET x == Max(0, bounds.x - padding)
      y == Max(0, bounds.y - padding)
      w == Min(bounds.width + padding * 2, sw - x)
      h == Min(bounds.height + padding * 2, sh - y)
  IN  [x |-> x, y |-> y, w |-> w, h |-> h]

(***************************************************************************)
(* Layer types (types.ts is not among the sources; the names are the ones  *)
(* the editor uses).                                                       *)
(***************************************************************************)
LayerTypes == {"Color", "Opacity", "NormalGL", "NormalDX", "Roughness"}

(***************************************************************************)
(* Input atlases.  A LoadedAtlas {baseName, layers, width, height} as      *)
(* loadAtlasFromFiles returns it.  The images are given by formula, not    *)
(* pixel by pixel: every layer of an atlas shows the same rectangular      *)
(* blobs (x, y, width, height), pairwise more than one pixel apart, listed *)
(* in row-major order of their first pixel; level is the blob's opacity.   *)
(* layers is in Map insertion order, each layer with its image size.       *)
(***************************************************************************)
Layer(name, w, h) == [name |-> name, width |-> w, height |-> h]
Blob(x, y, w, h, level) == [x |-> x, y |-> y, width |-> w, height |-> h, level |-> level]

\* Two leaves; the first is fainter and touches the top-left corner.
AtlasA ==
  [baseName |-> "leafA", width |-> 64, height |-> 48, colorAlpha |-> FALSE,
   layers |-> << Layer("Color", 64, 48), Layer("Opacity", 64, 48) >>,
   blobs |-> << Blob(0, 0, 25, 20, 160), Blob(30, 22, 26, 24, 255) >>]

\* One leaf in the interior, with a normal map.
AtlasB ==
  [baseName |-> "leafB", width |-> 64, height |-> 48, colorAlpha |-> FALSE,
   layers |-> << Layer("Color", 64, 48), Layer("NormalGL", 64, 48), Layer("Opacity", 64, 48) >>,
   blobs |-> << Blob(10, 10, 30, 20, 255) >>]

\* A speck too small for the default minArea: detection finds no leaf.
AtlasC ==
  [baseName |-> "leafC", width |-> 64, height |-> 48, colorAlpha |-> FALSE,
   layers |-> << Layer("Color", 64, 48), Layer("NormalGL", 64, 48), Layer("Opacity", 64, 48) >>,
   blobs |-> << Blob(4, 4, 10, 10, 255) >>]

\* No Opacity layer: the opacity signal is the alpha of Color.
AtlasD ==
  [baseName |-> "leafD", width |-> 64, height |-> 48, colorAlpha |-> TRUE,
   layers |-> << Layer("Color", 64, 48), Layer("Roughness", 64, 48) >>,
   blobs |-> << Blob(20, 10, 25, 20, 200) >>]

\* Five leaves in a row; the second and the last are fainter.
AtlasE ==
  [baseName |-> "leafE", width |-> 128, height |-> 32, colorAlpha |-> FALSE,
   layers |-> << Layer("Color", 128, 32), Layer("Opacity", 128, 32) >>,
   blobs |-> << Blob(0, 2, 20, 25, 255), Blob(21, 2, 20, 25, 160), Blob(42, 2, 20, 25, 255),
                Blob(63, 2, 20, 25, 255), Blob(84, 2, 20, 25, 160) >>]

\* One leaf; the Roughness map is half the size of the other layers, and
\* the leaf's padded box starts at its right edge.
AtlasF ==
  [baseName |-> "leafF", width |-> 64, height |-> 48, colorAlpha |-> FALSE,
   layers |-> << Layer("Color", 64, 48), Layer("Opacity", 64, 48), Layer("Roughness", 32, 24) >>,
   blobs |-> << Blob(34, 2, 25, 20, 255) >>]

Atlases == {AtlasA, AtlasB, AtlasC, AtlasD, AtlasE, AtlasF}
AtlasByName(n) == CHOOSE a \in Atlases : a.baseName = n

SeqRange(s) == {s[i] : i \in 1..Len(s)}
LayerNames(a) == [i \in 1..Len(a.layers) |-> a.layers[i].name]
HasLayer(a, lt) == \E i \in 1..Len(a.layers) : a.layers[i].name = lt
LayerOf(a, lt) == a.layers[CHOOSE i \in 1..Len(a.layers) : a.layers[i].name = lt]

InBlob(b, x, y) == b.x <= x /\ x < b.x + b.width /\ b.y <= y /\ y < b.y + b.height
BlobAt(a, x, y) ==
  IF \E i \in 1..Len(a.blobs) : InBlob(a.blobs[i], x, y)
  THEN CHOOSE i \in 1..Len(a.blobs) : InBlob(a.blobs[i], x, y)
  ELSE 0

Transparent == <<0, 0, 0, 0>>
NeutralNormal == <<128, 128, 255, 255>>

\* The pixel (x, y) of layer lt of atlas a.
LayerPixel(a, lt, x, y) ==
  LET i == BlobAt(a, x, y)
      t == (x * 3 + y * 7) % 256
  IN  CASE lt = "Opacity" ->
             IF i = 0 THEN <<0, 0, 0, 255>>
             ELSE <<a.blobs[i].level, a.blobs[i].level, a.blobs[i].level, 255>>
        [] lt = "Color" ->
             IF i = 0 THEN <<0, 0, 0, IF a.colorAlpha THEN 0 ELSE 255>>
             ELSE <<t, 100 + i, 50, IF a.colorAlpha THEN a.blobs[i].level ELSE 255>>
        [] lt \in {"NormalGL", "NormalDX"} ->
             IF i = 0 THEN NeutralNormal ELSE <<t, 255 - t, 200, 255>>
        [] OTHER ->
             IF i = 0 THEN <<0, 0, 0, 255>> ELSE <<t, t, t, 255>>

(***************************************************************************)
(* getOpacityData and hasAlphaChannel                                      *)
(***************************************************************************)
NoOpacity == [none |-> TRUE]

\* Color has an alpha sample below 255 (leafDetection.ts).
HasAlphaChannel(a) == a.colorAlpha

GetOpacityDataAnyColor(a) ==
  IF HasLayer(a, "Opacity")
  THEN [useAlpha |-> FALSE, source |-> "Opacity layer (grayscale)"]
  ELSE IF HasLayer(a, "Color")
       THEN [useAlpha |-> TRUE, source |-> "Color alpha channel"]
       ELSE NoOpacity

GetOpacityData(a) ==
  IF HasLayer(a, "Opacity")
  THEN [useAlpha |-> FALSE, source |-> "Opacity layer (grayscale)"]
  ELSE IF HasLayer(a, "Color") /\ HasAlphaChannel(a)
       THEN [useAlpha |-> TRUE, source |-> "Color alpha channel"]
       ELSE NoOpacity

(***************************************************************************)
(* detectLeaves (leafDetection.ts is not among the sources: section 4.1 of *)
(* the specification).  A blob is one 4-connected component; it is         *)
(* foreground iff its sample in the selected channel is > threshold, kept  *)
(* iff its pixel count is >= minArea, and the kept components get the ids  *)
(* 0..k-1 in scan order.                                                   *)
(***************************************************************************)
SignalLevel(a, b, useAlpha) ==
  IF useAlpha THEN LayerPixel(a, "Color", b.x, b.y)[4]
  ELSE LayerPixel(a, "Opacity", b.x, b.y)[1]

DetectLeaves(a, thr, area, useAlpha) ==
  LET kept == SelectSeq(a.blobs,
                LAMBDA b : SignalLevel(a, b, useAlpha) > thr /\ b.width * b.height >= area)
  IN  [i \in 1..Len(kept) |->
         [id |-> i - 1, x |-> kept[i].x, y |-> kept[i].y,
          width |-> kept[i].width, height |-> kept[i].height]]

\* leafBounds.find(b => b.id === id): the first match, or NoBounds.
NoBounds == [none |-> TRUE]
HasBounds(leaves, id) == \E i \in 1..Len(leaves) : leaves[i].id = id
FindBounds(leaves, id) ==
  IF HasBounds(leaves, id)
  THEN leaves[CHOOSE i \in 1..Len(leaves) :
                 leaves[i].id = id /\ \A j \in 1..(i - 1) : leaves[j].id # id]
  ELSE NoBounds

(***************************************************************************)
(* A cropped canvas: a verbatim copy of the rectangle (x, y, w, h) of      *)
(* layer lt of the atlas src.  A rectangle of width or height 0 gives an   *)
(* empty canvas (drawImage with a zero source size paints nothing).        *)
(***************************************************************************)
Crop(a, lt, r) == [src |-> a.baseName, layer |-> lt, x |-> r.x, y |-> r.y, w |-> r.w, h |-> r.h]
CropPixel(c, u, v) == LayerPixel(AtlasByName(c.src), c.layer, c.x + u, c.y + v)

(***************************************************************************)
(* State of the LeafTextureEditor component (its useState hooks), the      *)
(* argument and result of the last extractLeafRegion call made on its own, *)
(* and lastOp, which records the last handler that ran and what it was     *)
(* given; nDuplicates counts the duplicateSelectedLeaf calls so far;       *)
(* rendered holds the canvases of the last rendering call (they are locals *)
(* of the call), kept while only the view changes after it.                *)
(***************************************************************************)
VARIABLES atlas, loading, error, detectedLeaves, selectedLeafIds, threshold,
          minArea, opacitySource, extractedLeaves, placedLeaves,
          selectedPlacedId, extraction, lastOp, nDuplicates, rendered

\* The view controls; the load attempts that are still decoding, the files
\* of the last attempt started and the session as it was when it started;
\* the export dialog with the save requests and downloads of the exports;
\* the argument and result of the last alpha masking of the combined
\* preview; and the arguments and result of a call of a pure function under
\* observation.
VARIABLES showCombined, activeLayer, pendingLoads, sourceFiles, beforeLoad,
          showExportDialog, exporting,
          exportFolderName, exportRun, requests, persisted, downloads, masking, call

\* The PalletEditor page (its useState hooks pallet, materialsConfig,
\* hasChanges and saving), the save request that is awaiting its response,
\* and the pallet as it was loaded or last saved successfully.
VARIABLES pallet, materialsConfig, hasChanges, saving, pendingSave, savedPallet

editorVars == <<atlas, loading, error, detectedLeaves, selectedLeafIds, threshold,
                minArea, opacitySource, extractedLeaves, placedLeaves,
                selectedPlacedId>>
viewVars == <<showCombined, activeLayer>>
exportVars == <<showExportDialog, exporting, exportFolderName, exportRun, requests,
                persisted, downloads>>
palletVars == <<pallet, materialsConfig, hasChanges, saving, pendingSave, savedPallet>>
pureVars == <<masking, call, palletVars>>
otherVars == <<viewVars, exportVars, pureVars>>
loadVars == <<pendingLoads, sourceFiles, beforeLoad>>
vars == <<editorVars, extraction, lastOp, nDuplicates, rendered, loadVars, otherVars>>

NoAtlas == [none |-> TRUE]
NoId == <<>>
NoError == ""
NoOp == [op |-> "none", given |-> <<>>, first |-> 0, count |-> 0]
NoExtraction == [sw |-> 1, sh |-> 1, padding |-> 0, done |-> FALSE,
                 bounds |-> [id |-> 0, x |-> 0, y |-> 0, width |-> 1, height |-> 1],
                 rect |-> [x |-> 0, y |-> 0, w |-> 0, h |-> 0]]
EmptyMap == <<>>
NoRender == [op |-> "none", raised |-> FALSE, canvases |-> <<>>]
NoFiles == [files |-> <<>>, blobs |-> <<>>, colorAlpha |-> FALSE]
NoSession == <<NoAtlas, <<>>, EmptyMap, <<>>>>
NoExportRun == [folder |-> "", layers |-> <<>>, canvases |-> EmptyMap]
NoCall == [fn |-> "none", done |-> FALSE]
NoMasking == [color |-> <<0, 0, 0, 0>>, opacity |-> <<0, 0, 0, 0>>, done |-> FALSE,
              out |-> <<0, 0, 0, 0>>]

NoPallet == [none |-> TRUE]
NoSave == [none |-> TRUE]
\* The page before loadData has set its state.
PalletNotLoaded ==
  /\ pallet = NoPallet
  /\ materialsConfig = EmptyMap
  /\ hasChanges = FALSE
  /\ saving = FALSE
  /\ pendingSave = NoSave
  /\ savedPallet = NoPallet

InitEditor ==
  /\ atlas = NoAtlas
  /\ loading = FALSE
  /\ error = NoError
  /\ detectedLeaves = <<>>
  /\ selectedLeafIds = <<>>
  /\ threshold = DefaultThreshold
  /\ minArea = DefaultMinArea
  /\ opacitySource = ""
  /\ extractedLeaves = EmptyMap
  /\ placedLeaves = <<>>
  /\ selectedPlacedId = NoId
  /\ lastOp = NoOp
  /\ nDuplicates = 0
  /\ rendered = NoRender
  /\ showCombined = TRUE
  /\ activeLayer = "Color"
  /\ pendingLoads = <<>>
  /\ sourceFiles = NoFiles
  /\ beforeLoad = NoSession
  /\ showExportDialog = FALSE
  /\ exporting = FALSE
  /\ exportFolderName = ""
  /\ exportRun = NoExportRun
  /\ requests = <<>>
  /\ persisted = {}
  /\ downloads = <<>>

(***************************************************************************)
(* The grid of a bulk add: slot index of a batch laid out for n leaves.    *)
(*   cols = Math.ceil(Math.sqrt(n)); spacing = OUTPUT_SIZE / (cols + 1)    *)
(*   x = spacing * (index % cols + 1); y = spacing * (floor(index/cols)+1) *)
(***************************************************************************)
\* Math.floor in the place of Math.ceil.
GridColsFloor(n) == CHOOSE c \in 0..n : c * c <= n /\ (c + 1) * (c + 1) > n

GridCols(n) == CeilSqrt(n)
GridX(index, n) == Rat(OUTPUT_SIZE * ((index % GridCols(n)) + 1), GridCols(n) + 1)
GridY(index, n) == Rat(OUTPUT_SIZE * ((index \div GridCols(n)) + 1), GridCols(n) + 1)

\* `leaf_${Date.now()}_${index}` and `leaf_${Date.now()}`: two such strings are
\* equal iff they have the same parts.
BulkId(now, index) == <<"leaf", now, index>>
DuplicateId(now) == <<"leaf", now>>

GridLeaf(now, index, n, sourceId) ==
  [id |-> BulkId(now, index), sourceId |-> sourceId,
   x |-> GridX(index, n), y |-> GridY(index, n),
   rotation |-> 0, scale |-> 10, flipX |-> FALSE, flipY |-> FALSE]

(***************************************************************************)
(* autoAddAllLeaves(loadedAtlas, leaves): the new cache and the new list.  *)
(* extractLeafRegion is given the layer's own image and the default        *)
(* padding.                                                                *)
(***************************************************************************)
AutoExtracted(a, leaves) ==
  [id \in {leaves[i].id : i \in 1..Len(leaves)} |->
     [lt \in SeqRange(LayerNames(a)) |->
        Crop(a, lt, ExtractLeafRegion(LayerOf(a, lt).width, LayerOf(a, lt).height,
                                      FindBounds(leaves, id), AutoPadding))]]

AutoPlaced(leaves, now) ==
  [i \in 1..Len(leaves) |-> GridLeaf(now, i - 1, Len(leaves), leaves[i].id)]

(***************************************************************************)
(* handleFiles / handleLoadFromSources from the point where the batch has  *)
(* been decoded into the atlas a (setAtlas and what follows it in the try  *)
(* block, and the finally), followed by the re-detect effect (which        *)
(* recomputes the same detection).  now is what Date.now() returns; err is *)
(* the error shown when the decoding ends.                                 *)
(***************************************************************************)
NoOpacityMessage == "No opacity data found. Need an Opacity layer or Color with alpha channel."

AtlasLoaded(a, now, err) ==
  LET od == GetOpacityData(a)
      leaves == IF od = NoOpacity THEN <<>>
                ELSE DetectLeaves(a, threshold, minArea, od.useAlpha)
  IN  /\ atlas' = a
      /\ loading' = FALSE
      /\ detectedLeaves' = leaves
      /\ IF od = NoOpacity
         THEN /\ opacitySource' = "none"
              /\ error' = NoOpacityMessage
         ELSE /\ opacitySource' = od.source
              /\ error' = err
      /\ IF Len(leaves) > 0
         THEN /\ extractedLeaves' = AutoExtracted(a, leaves)
              /\ placedLeaves' = AutoPlaced(leaves, now)
         ELSE UNCHANGED <<extractedLeaves, placedLeaves>>
      /\ UNCHANGED otherVars
      /\ rendered' = NoRender
      /\ lastOp' = IF Len(leaves) > 0
                    THEN [op |-> "autoAddAllLeaves",
                          given |-> [i \in 1..Len(leaves) |-> leaves[i].id],
                          first |-> 1, count |-> Len(leaves)]
                    ELSE [NoOp EXCEPT !.op = "load"]
      /\ UNCHANGED <<selectedLeafIds, threshold, minArea, selectedPlacedId, extraction, nDuplicates>>

\* A load attempt that decodes into the atlas a, with nothing in between:
\* setError(null) at its start, no other attempt touched.
LoadAtlas(a, now) == AtlasLoaded(a, now, NoError) /\ UNCHANGED loadVars

(***************************************************************************)
(* The re-detect effect, run when the threshold or minArea control changes *)
(* (the controls exist only while an atlas is loaded).                     *)
(***************************************************************************)
\* The list left as it was.
ReDetectKeepingList(a, thr, area) ==
  LET od == GetOpacityData(a)
  IN  /\ opacitySource' = IF od = NoOpacity THEN "none" ELSE od.source
      /\ UNCHANGED detectedLeaves

ReDetect(a, thr, area) ==
  LET od == GetOpacityData(a)
  IN  IF od = NoOpacity
      THEN opacitySource' = "none" /\ detectedLeaves' = <<>>
      ELSE /\ opacitySource' = od.source
           /\ detectedLeaves' = DetectLeaves(a, thr, area, od.useAlpha)

SetThreshold(v) ==
  /\ atlas # NoAtlas
  /\ v # threshold
  /\ threshold' = v
  /\ ReDetect(atlas, v, minArea)
  /\ UNCHANGED <<loadVars, otherVars>>
  /\ rendered' = NoRender
  /\ lastOp' = NoOp
  /\ UNCHANGED <<atlas, loading, error, selectedLeafIds, minArea, extractedLeaves,
                 placedLeaves, selectedPlacedId, extraction, nDuplicates>>

SetMinArea(v) ==
  /\ atlas # NoAtlas
  /\ v # minArea
  /\ minArea' = v
  /\ ReDetect(atlas, threshold, v)
  /\ UNCHANGED <<loadVars, otherVars>>
  /\ rendered' = NoRender
  /\ lastOp' = NoOp
  /\ UNCHANGED <<atlas, loading, error, selectedLeafIds, threshold, extractedLeaves,
                 placedLeaves, selectedPlacedId, extraction, nDuplicates>>

(***************************************************************************)
(* handleSourceClick at the source-image point (px, py): toggles the first *)
(* detected leaf whose box holds the point.  selectedLeafIds is a Set,     *)
(* iterated in insertion order: a sequence without repetition.             *)
(***************************************************************************)
Holds(leaf, px, py) ==
  /\ px >= leaf.x /\ px <= leaf.x + leaf.width
  /\ py >= leaf.y /\ py <= leaf.y + leaf.height

Toggle(sel, id) ==
  IF id \in SeqRange(sel) THEN SelectSeq(sel, LAMBDA e : e # id) ELSE Append(sel, id)

HandleSourceClick(px, py) ==
  /\ atlas # NoAtlas
  /\ \E i \in 1..Len(detectedLeaves) :
       /\ Holds(detectedLeaves[i], px, py)
       /\ \A j \in 1..(i - 1) : ~Holds(detectedLeaves[j], px, py)
       /\ selectedLeafIds' = Toggle(selectedLeafIds, detectedLeaves[i].id)
  /\ UNCHANGED <<loadVars, otherVars>>
  /\ rendered' = NoRender
  /\ lastOp' = NoOp
  /\ UNCHANGED <<atlas, loading, error, detectedLeaves, threshold, minArea, opacitySource,
                 extractedLeaves, placedLeaves, selectedPlacedId, extraction, nDuplicates>>

(***************************************************************************)
(* extractSelectedLeaves: the cache extended by the crops of the selected  *)
(* ids that are not cached yet and resolve to a LeafBounds.  The source    *)
(* canvas has the atlas's size.                                            *)
(***************************************************************************)
ExtractSelected(a, extracted, sel, leaves) ==
  [id \in (DOMAIN extracted) \cup {e \in SeqRange(sel) : HasBounds(leaves, e)} |->
     IF id \in DOMAIN extracted THEN extracted[id]
     ELSE [lt \in SeqRange(LayerNames(a)) |->
             Crop(a, lt, ExtractLeafRegion(a.width, a.height,
                                           FindBounds(leaves, id), SelectPadding))]]

(***************************************************************************)
(* addLeavesToOutput: the instances it appends.  A selected id without a   *)
(* LeafBounds is passed over and takes no grid slot; cols is computed from *)
(* the size of the selection.                                              *)
(***************************************************************************)
Resolved(sel, leaves) == SelectSeq(sel, LAMBDA e : HasBounds(leaves, e))

NewPlacedNoSkip(sel, leaves, now) ==
  [i \in 1..Len(sel) |-> GridLeaf(now, i - 1, Len(sel), sel[i])]

NewPlacedColsFromKept(sel, leaves, now) ==
  LET kept == Resolved(sel, leaves)
  IN  [i \in 1..Len(kept) |-> GridLeaf(now, i - 1, Len(kept), kept[i])]

NewPlaced(sel, leaves, now) ==
  LET kept == Resolved(sel, leaves)
  IN  [i \in 1..Len(kept) |-> GridLeaf(now, i - 1, Len(sel), kept[i])]

AddLeavesToOutput(now) ==
  /\ Len(selectedLeafIds) > 0
  /\ extractedLeaves' = IF atlas = NoAtlas THEN extractedLeaves
                        ELSE ExtractSelected(atlas, extractedLeaves, selectedLeafIds,
                                             detectedLeaves)
  /\ placedLeaves' = placedLeaves \o NewPlaced(selectedLeafIds, detectedLeaves, now)
  /\ selectedLeafIds' = <<>>
  /\ UNCHANGED <<loadVars, otherVars>>
  /\ rendered' = NoRender
  /\ lastOp' = [op |-> "addLeavesToOutput", given |-> selectedLeafIds,
                first |-> Len(placedLeaves) + 1,
                count |-> Len(NewPlaced(selectedLeafIds, detectedLeaves, now))]
  /\ UNCHANGED <<atlas, loading, error, detectedLeaves, threshold, minArea, opacitySource,
                 selectedPlacedId, extraction, nDuplicates>>

(***************************************************************************)
(* The buttons of the placed-leaves list: setSelectedPlacedId(leaf.id).    *)
(***************************************************************************)
SelectPlaced(i) ==
  /\ i \in 1..Len(placedLeaves)
  /\ selectedPlacedId # placedLeaves[i].id
  /\ selectedPlacedId' = placedLeaves[i].id
  /\ UNCHANGED <<loadVars, otherVars>>
  /\ UNCHANGED rendered
  /\ lastOp' = NoOp
  /\ UNCHANGED <<atlas, loading, error, detectedLeaves, selectedLeafIds, threshold, minArea,
                 opacitySource, extractedLeaves, placedLeaves, extraction, nDuplicates>>

(***************************************************************************)
(* updateSelectedLeaf(updates): { ...leaf, ...updates } on every instance  *)
(* whose id is the selected one.  The transform controls are shown only    *)
(* while the selected id is the id of an instance.                         *)
(***************************************************************************)
Merge(leaf, updates) ==
  [f \in DOMAIN leaf |-> IF f \in DOMAIN updates THEN updates[f] ELSE leaf[f]]

HasPlaced(id) == \E i \in 1..Len(placedLeaves) : placedLeaves[i].id = id

UpdateSelectedLeaf(updates) ==
  /\ selectedPlacedId # NoId
  /\ HasPlaced(selectedPlacedId)
  /\ placedLeaves' = [i \in 1..Len(placedLeaves) |->
                        IF placedLeaves[i].id = selectedPlacedId
                        THEN Merge(placedLeaves[i], updates)
                        ELSE placedLeaves[i]]
  /\ UNCHANGED <<loadVars, otherVars>>
  /\ rendered' = NoRender
  /\ lastOp' = NoOp
  /\ UNCHANGED <<atlas, loading, error, detectedLeaves, selectedLeafIds, threshold, minArea,
                 opacitySource, extractedLeaves, selectedPlacedId, extraction, nDuplicates>>

\* What the controls can hand to updateSelectedLeaf.
\* <input type="range" min="0" max="360">: every whole degree of 0..360.
RotationControlSigned == -180..180
RotationControl == 0..360
\* <input type="range" min="0.1" max="3" step="0.1">, in tenths.
ScaleControlFromZero == 0..30
ScaleControl == 1..30

\* The control values the model tries: the quarter turns of the rotation
\* control; the least value and the whole values of the scale control.
RotationInputs == {v \in RotationControl : v % 90 = 0}
ScaleInputs == {v \in ScaleControl : v % 10 = 0 \/ \A w \in ScaleControl : v <= w}

(***************************************************************************)
(* deleteSelectedLeaf, duplicateSelectedLeaf, and the Clear All button     *)
(***************************************************************************)
DeleteSelectedLeaf ==
  /\ selectedPlacedId # NoId
  /\ placedLeaves' = SelectSeq(placedLeaves, LAMBDA l : l.id # selectedPlacedId)
  /\ selectedPlacedId' = NoId
  /\ UNCHANGED <<loadVars, otherVars>>
  /\ rendered' = NoRender
  /\ lastOp' = NoOp
  /\ UNCHANGED <<atlas, loading, error, detectedLeaves, selectedLeafIds, threshold, minArea,
                 opacitySource, extractedLeaves, extraction, nDuplicates>>

FindPlaced(id) ==
  placedLeaves[CHOOSE i \in 1..Len(placedLeaves) :
                 placedLeaves[i].id = id /\ \A j \in 1..(i - 1) : placedLeaves[j].id # id]

DuplicateOf(original, now) ==
  [original EXCEPT !.id = DuplicateId(now),
                   !.x = RatAddInt(original.x, DuplicateOffset),
                   !.y = RatAddInt(original.y, DuplicateOffset)]

DuplicateSelectedLeaf(now) ==
  /\ selectedPlacedId # NoId
  /\ HasPlaced(selectedPlacedId)
  /\ placedLeaves' = Append(placedLeaves, DuplicateOf(FindPlaced(selectedPlacedId), now))
  /\ selectedPlacedId' = DuplicateId(now)
  /\ UNCHANGED <<loadVars, otherVars>>
  /\ rendered' = NoRender
  /\ lastOp' = [op |-> "duplicateSelectedLeaf", given |-> <<selectedPlacedId>>,
                first |-> Len(placedLeaves) + 1, count |-> 1]
  /\ nDuplicates' = nDuplicates + 1
  /\ UNCHANGED <<atlas, loading, error, detectedLeaves, selectedLeafIds, threshold, minArea,
                 opacitySource, extractedLeaves, extraction>>

ClearAll ==
  /\ Len(placedLeaves) > 0
  /\ placedLeaves' = <<>>
  /\ UNCHANGED <<loadVars, otherVars>>
  /\ rendered' = NoRender
  /\ lastOp' = NoOp
  /\ UNCHANGED <<atlas, loading, error, detectedLeaves, selectedLeafIds, threshold, minArea,
                 opacitySource, extractedLeaves, selectedPlacedId, extraction, nDuplicates>>

(***************************************************************************)
(* extractLeafRegion called on its own, on a source of sw x sh pixels and  *)
(* a LeafBounds that lies inside it.                                       *)
(***************************************************************************)
BoundsInside(sw, sh) ==
  {[id |-> 0, x |-> x, y |-> y, width |-> w, height |-> h] :
     x \in 0..(sw - 1), y \in 0..(sh - 1), w \in 1..sw, h \in 1..sh}

InitExtract ==
  /\ InitEditor
  /\ PalletNotLoaded
  /\ masking = NoMasking
  /\ call = NoCall
  /\ \E sw \in 1..MaxSrc, sh \in 1..MaxSrc, p \in 0..MaxPad :
       \E b \in BoundsInside(sw, sh) :
         /\ b.x + b.width <= sw
         /\ b.y + b.height <= sh
         /\ extraction = [NoExtraction EXCEPT !.sw = sw, !.sh = sh, !.padding = p,
                                              !.bounds = b]

ExtractCall ==
  /\ ~extraction.done
  /\ extraction' = [extraction EXCEPT
                      !.done = TRUE,
                      !.rect = ExtractLeafRegion(extraction.sw, extraction.sh,
                                                 extraction.bounds, extraction.padding)]
  /\ UNCHANGED <<editorVars, lastOp, nDuplicates, rendered>>
  /\ UNCHANGED <<loadVars, otherVars>>

NextExtract == ExtractCall

SpecExtract == InitExtract /\ [][NextExtract]_vars

(***************************************************************************)
(* The placement model: loads, selection, bulk add, duplicate, delete and  *)
(* clear, with the clock free at every operation.                          *)
(***************************************************************************)
Clock == 0..MaxClock
ThresholdInputs == {DefaultThreshold, 200}
\* Source-image points clicked: inside each blob of AtlasA and AtlasB.
ClickPoints == {<<12, 10>>, <<43, 34>>}

Init ==
  /\ InitEditor
  /\ PalletNotLoaded
  /\ extraction = NoExtraction
  /\ masking = NoMasking
  /\ call = NoCall

\* The model stops adding once the list would grow past cap instances.
Room(n, cap) == Len(placedLeaves) + n <= cap
AddRoom(cap) == Room(Len(Resolved(selectedLeafIds, detectedLeaves)), cap)

Next ==
  \/ \E now \in Clock : LoadAtlas(AtlasA, now)
  \/ \E p \in ClickPoints : HandleSourceClick(p[1], p[2])
  \/ \E now \in Clock : AddRoom(MaxPlaced) /\ AddLeavesToOutput(now)
  \/ \E i \in 1..MaxPlaced : SelectPlaced(i)
  \/ DeleteSelectedLeaf
  \/ \E now \in Clock :
       Room(1, MaxPlaced) /\ nDuplicates < MaxDuplicates /\ DuplicateSelectedLeaf(now)
  \/ ClearAll

Spec == Init /\ [][Next]_vars

(***************************************************************************)
(* Bulk adds: the five-leaf atlas, re-detection (which renumbers the       *)
(* leaves and leaves the selection alone), selection by clicks, add and    *)
(* clear.                                                                  *)
(***************************************************************************)
\* Points inside the first, the fourth and the fifth blob of AtlasE.
LayoutClickPoints == {<<10, 12>>, <<73, 12>>, <<94, 12>>}

NextLayout ==
  \/ LoadAtlas(AtlasE, 0)
  \/ \E v \in ThresholdInputs : SetThreshold(v)
  \/ \E p \in LayoutClickPoints : HandleSourceClick(p[1], p[2])
  \/ AddRoom(MaxAdded) /\ AddLeavesToOutput(0)
  \/ ClearAll

SpecLayout == Init /\ [][NextLayout]_vars

(***************************************************************************)
(* Transform edits: one leaf loaded, selected, edited through the          *)
(* rotation, scale and flip controls, and duplicated.                      *)
(***************************************************************************)
TransformUpdates ==
  {[rotation |-> v] : v \in RotationInputs} \cup {[scale |-> v] : v \in ScaleInputs}
    \cup {[flipX |-> b] : b \in BOOLEAN}

NextTransform ==
  \/ LoadAtlas(AtlasB, 0)
  \/ \E i \in 1..MaxPlaced : SelectPlaced(i)
  \/ \E u \in TransformUpdates : UpdateSelectedLeaf(u)
  \/ Room(1, MaxAdded) /\ nDuplicates < MaxDuplicates /\ DuplicateSelectedLeaf(1)
  \/ DeleteSelectedLeaf

SpecTransform == Init /\ [][NextTransform]_vars

(***************************************************************************)
(* The 2D canvas.  A canvas is observed at the pixels of Probes; the value *)
(* of a pixel depends on no other pixel of the destination, so the probes  *)
(* composite exactly as the whole canvas does.  A context is the pixels    *)
(* and whether a call on it has thrown.                                    *)
(***************************************************************************)
\* The centre and the first grid slots of the output, the corners of the
\* crops drawn there, and the outer corners of the canvas.
Probes ==
  {<<512, 512>>, <<497, 500>>, <<496, 500>>, <<526, 525>>, <<527, 526>>,
   <<341, 341>>, <<682, 341>>, <<0, 0>>, <<1023, 1023>>}

CreateCanvas(size) ==
  [raised |-> FALSE,
   pixels |-> [p \in {q \in Probes : q[1] < size /\ q[2] < size} |-> Transparent]]

Round(n, d) == (2 * n + d) \div (2 * d)

\* globalCompositeOperation 'source-over' on 8-bit straight-alpha pixels.
SourceOver(s, d) ==
  LET a255 == s[4] * 255 + d[4] * (255 - s[4])
      Ch(k) == Round(s[k] * s[4] * 255 + d[k] * d[4] * (255 - s[4]), a255)
  IN  IF a255 = 0 THEN Transparent
      ELSE <<Ch(1), Ch(2), Ch(3), Round(a255, 255)>>

FillRect(ctx, colour) ==
  [ctx EXCEPT !.pixels = [p \in DOMAIN ctx.pixels |-> SourceOver(colour, ctx.pixels[p])]]

\* Math.cos and Math.sin of rotation * PI / 180, at the quarter turns.
Cos(deg) == CASE deg % 360 = 0 -> 1 [] deg % 360 = 180 -> -1 [] OTHER -> 0
Sin(deg) == CASE deg % 360 = 90 -> 1 [] deg % 360 = 270 -> -1 [] OTHER -> 0

(***************************************************************************)
(* drawPlacedLeaf: translate(x, y), rotate, scale (negated by a flip),     *)
(* drawImage(leafCanvas, -width / 2, -height / 2).  SourcePoint is the     *)
(* pixel of leafCanvas that the centre of the output pixel (px, py) falls  *)
(* in under the inverse transform; with D = 2 * xd * yd, DX / D and DY / D *)
(* are the centre's offsets from (x, y).  drawImage throws                 *)
(* InvalidStateError on a canvas of zero width or height.                  *)
(***************************************************************************)
SourcePoint(leafCanvas, placed, px, py) ==
  LET xn == placed.x[1]
      xd == placed.x[2]
      yn == placed.y[1]
      yd == placed.y[2]
      D  == 2 * xd * yd
      DX == (2 * px + 1) * xd * yd - 2 * xn * yd
      DY == (2 * py + 1) * xd * yd - 2 * yn * xd
      RX == Cos(placed.rotation) * DX + Sin(placed.rotation) * DY
      RY == Cos(placed.rotation) * DY - Sin(placed.rotation) * DX
      fx == IF placed.flipX THEN -1 ELSE 1
      fy == IF placed.flipY THEN -1 ELSE 1
  IN  << (20 * fx * RX + leafCanvas.w * D * placed.scale) \div (2 * D * placed.scale),
         (20 * fy * RY + leafCanvas.h * D * placed.scale) \div (2 * D * placed.scale) >>

Covers(leafCanvas, placed, px, py) ==
  /\ placed.scale > 0
  /\ LET uv == SourcePoint(leafCanvas, placed, px, py)
     IN  0 <= uv[1] /\ uv[1] < leafCanvas.w /\ 0 <= uv[2] /\ uv[2] < leafCanvas.h

DrawnPixel(leafCanvas, placed, px, py) ==
  LET uv == SourcePoint(leafCanvas, placed, px, py)
  IN  CropPixel(leafCanvas, uv[1], uv[2])

\* The image drawn with its corner, not its centre, at the position.
DrawPlacedLeafAtCorner(ctx, leafCanvas, placed, bounds) ==
  LET moved == [placed EXCEPT !.x = RatAddInt(@, leafCanvas.w),
                              !.y = RatAddInt(@, leafCanvas.h)]
  IN  IF leafCanvas.w = 0 \/ leafCanvas.h = 0
      THEN [ctx EXCEPT !.raised = TRUE]
      ELSE [ctx EXCEPT !.pixels =
              [p \in DOMAIN ctx.pixels |->
                 IF Covers(leafCanvas, moved, p[1], p[2])
                 THEN SourceOver(DrawnPixel(leafCanvas, moved, p[1], p[2]), ctx.pixels[p])
                 ELSE ctx.pixels[p]]]

DrawPlacedLeaf(ctx, leafCanvas, placed, bounds) ==
  IF leafCanvas.w = 0 \/ leafCanvas.h = 0
  THEN [ctx EXCEPT !.raised = TRUE]
  ELSE [ctx EXCEPT !.pixels =
          [p \in DOMAIN ctx.pixels |->
             IF Covers(leafCanvas, placed, p[1], p[2])
             THEN SourceOver(DrawnPixel(leafCanvas, placed, p[1], p[2]), ctx.pixels[p])
             ELSE ctx.pixels[p]]]

(***************************************************************************)
(* renderOutput(atlas, placedLeaves, leafBounds, extractedLeaves,          *)
(* outputSize, layerType): the fill, then the loop over placedLeaves from  *)
(* the instance at index i on.  An exception ends the call.                *)
(***************************************************************************)
RenderFillStyle(layerType) ==
  IF layerType \in {"NormalGL", "NormalDX"} THEN NeutralNormal ELSE Transparent

RECURSIVE RenderLeaves(_, _, _, _, _, _)
RenderLeaves(ctx, placed, leafBounds, extracted, layerType, i) ==
  IF i > Len(placed) \/ ctx.raised THEN ctx
  ELSE IF ~HasBounds(leafBounds, placed[i].sourceId)
       THEN RenderLeaves(ctx, placed, leafBounds, extracted, layerType, i + 1)
  ELSE IF placed[i].sourceId \notin DOMAIN extracted
       THEN RenderLeaves(ctx, placed, leafBounds, extracted, layerType, i + 1)
  ELSE IF layerType \notin DOMAIN extracted[placed[i].sourceId]
       THEN RenderLeaves(ctx, placed, leafBounds, extracted, layerType, i + 1)
  ELSE RenderLeaves(
         DrawPlacedLeaf(ctx, extracted[placed[i].sourceId][layerType], placed[i],
                        FindBounds(leafBounds, placed[i].sourceId)),
         placed, leafBounds, extracted, layerType, i + 1)

RenderOutput(a, placed, leafBounds, extracted, outputSize, layerType) ==
  RenderLeaves(FillRect(CreateCanvas(outputSize), RenderFillStyle(layerType)),
               placed, leafBounds, extracted, layerType, 1)

(***************************************************************************)
(* generateExportCanvases: for each layer of the atlas a canvas, filled    *)
(* only for the normal layers, then the loop over placedLeaves.            *)
(***************************************************************************)
\* A background of opaque black on every layer.
ExportBackgroundBlack(layerType) ==
  FillRect(CreateCanvas(OUTPUT_SIZE), <<0, 0, 0, 255>>)

ExportBackground(layerType) ==
  IF layerType \in {"NormalGL", "NormalDX"}
  THEN FillRect(CreateCanvas(OUTPUT_SIZE), NeutralNormal)
  ELSE CreateCanvas(OUTPUT_SIZE)

\* The loop run from the last instance to the first.
RECURSIVE ExportLeavesTopDown(_, _, _, _, _, _)
ExportLeavesTopDown(ctx, placed, leafBounds, extracted, layerType, i) ==
  LET k == Len(placed) + 1 - i
  IN  IF i > Len(placed) \/ ctx.raised THEN ctx
      ELSE IF placed[k].sourceId \notin DOMAIN extracted
           THEN ExportLeavesTopDown(ctx, placed, leafBounds, extracted, layerType, i + 1)
      ELSE IF layerType \notin DOMAIN extracted[placed[k].sourceId]
           THEN ExportLeavesTopDown(ctx, placed, leafBounds, extracted, layerType, i + 1)
      ELSE IF ~HasBounds(leafBounds, placed[k].sourceId)
           THEN ExportLeavesTopDown(ctx, placed, leafBounds, extracted, layerType, i + 1)
      ELSE ExportLeavesTopDown(
             DrawPlacedLeaf(ctx, extracted[placed[k].sourceId][layerType], placed[k],
                            FindBounds(leafBounds, placed[k].sourceId)),
             placed, leafBounds, extracted, layerType, i + 1)

RECURSIVE ExportLeaves(_, _, _, _, _, _)
ExportLeaves(ctx, placed, leafBounds, extracted, layerType, i) ==
  IF i > Len(placed) \/ ctx.raised THEN ctx
  ELSE IF placed[i].sourceId \notin DOMAIN extracted
       THEN ExportLeaves(ctx, placed, leafBounds, extracted, layerType, i + 1)
  ELSE IF layerType \notin DOMAIN extracted[placed[i].sourceId]
       THEN ExportLeaves(ctx, placed, leafBounds, extracted, layerType, i + 1)
  ELSE IF ~HasBounds(leafBounds, placed[i].sourceId)
       THEN ExportLeaves(ctx, placed, leafBounds, extracted, layerType, i + 1)
  ELSE ExportLeaves(
         DrawPlacedLeaf(ctx, extracted[placed[i].sourceId][layerType], placed[i],
                        FindBounds(leafBounds, placed[i].sourceId)),
         placed, leafBounds, extracted, layerType, i + 1)

\* The export drawing what the preview shows: the active layer's crops
\* when the combined view is off.
ExportCanvasAsViewed(layerType) ==
  ExportLeaves(ExportBackground(layerType), placedLeaves, detectedLeaves,
               extractedLeaves, IF showCombined THEN layerType ELSE activeLayer, 1)

ExportCanvas(layerType) ==
  ExportLeaves(ExportBackground(layerType), placedLeaves, detectedLeaves,
               extractedLeaves, layerType, 1)

\* An exception ends the call: no Map is returned.
GenerateExportCanvases ==
  IF atlas = NoAtlas THEN [raised |-> FALSE, canvases |-> EmptyMap]
  ELSE LET names == LayerNames(atlas)
           Threw(k) == ExportCanvas(names[k]).raised
           threw == \E k \in 1..Len(names) : Threw(k)
       IN  [raised |-> threw,
            canvases |-> IF threw THEN EmptyMap
                         ELSE [lt \in SeqRange(names) |-> ExportCanvas(lt).pixels]]

(***************************************************************************)
(* The rendering calls: renderOutput for the layer type asked for, and     *)
(* generateExportCanvases, on the editor's state.  A call that throws      *)
(* returns no canvas.                                                      *)
(***************************************************************************)
RenderOutputCall(layerType) ==
  /\ atlas # NoAtlas
  /\ LET out == RenderOutput(atlas, placedLeaves, detectedLeaves, extractedLeaves,
                             OUTPUT_SIZE, layerType)
     IN  rendered' = [op |-> "renderOutput", raised |-> out.raised,
                      canvases |-> IF out.raised THEN EmptyMap
                                   ELSE [lt \in {layerType} |-> out.pixels]]
  /\ lastOp' = NoOp
  /\ UNCHANGED <<editorVars, extraction, nDuplicates>>
  /\ UNCHANGED <<loadVars, otherVars>>

GenerateExportCanvasesCall ==
  /\ rendered' = [op |-> "generateExportCanvases",
                  raised |-> GenerateExportCanvases.raised,
                  canvases |-> GenerateExportCanvases.canvases]
  /\ lastOp' = NoOp
  /\ UNCHANGED <<editorVars, extraction, nDuplicates>>
  /\ UNCHANGED <<loadVars, otherVars>>

(***************************************************************************)
(* Rendering: atlases whose layers share a size (one of them without a     *)
(* leaf) and one whose Roughness map is half the size, re-detection,       *)
(* selection, add, clear, and the two rendering calls.                     *)
(***************************************************************************)
RenderLayerInputs == {"Color", "Opacity", "NormalGL", "Roughness"}

NextRender ==
  \/ \E a \in {AtlasA, AtlasB, AtlasC, AtlasF} : LoadAtlas(a, 0)
  \/ \E v \in ThresholdInputs : SetThreshold(v)
  \/ \E p \in ClickPoints : HandleSourceClick(p[1], p[2])
  \/ AddRoom(MaxPlaced) /\ AddLeavesToOutput(0)
  \/ ClearAll
  \/ \E lt \in RenderLayerInputs : RenderOutputCall(lt)
  \/ GenerateExportCanvasesCall

SpecRender == Init /\ [][NextRender]_vars

(***************************************************************************)
(* The combined preview of the output render effect: the Color crop with   *)
(* the red sample of the Opacity crop multiplied into its alpha.  The      *)
(* samples are those of the ImageData arrays (Uint8ClampedArray).          *)
(***************************************************************************)
ByteMax == 255
Clamp8(v) == Min(ByteMax, Max(0, v))

\* Math.floor in the place of Math.round.
MaskAlphaFloor(colorPixel, opacityPixel) ==
  <<colorPixel[1], colorPixel[2], colorPixel[3],
    Clamp8((colorPixel[4] * opacityPixel[1]) \div ByteMax)>>

\* colorData.data[i + 3] = Math.round((colorData.data[i + 3] * opacityData.data[i]) / 255)
MaskAlpha(colorPixel, opacityPixel) ==
  <<colorPixel[1], colorPixel[2], colorPixel[3],
    Clamp8(Round(colorPixel[4] * opacityPixel[1], ByteMax))>>

\* The mask applied on its own to one pixel of each crop: every alpha of the
\* Color pixel against every red sample of the (grayscale) Opacity pixel.
InitMask ==
  /\ InitEditor
  /\ PalletNotLoaded
  /\ extraction = NoExtraction
  /\ call = NoCall
  /\ \E a \in 0..ByteMax, o \in 0..ByteMax :
       masking = [NoMasking EXCEPT !.color = <<(a * 7) % (ByteMax + 1), 200, 30, a>>,
                                   !.opacity = <<o, o, o, ByteMax>>]

MaskCall ==
  /\ ~masking.done
  /\ masking' = [masking EXCEPT !.done = TRUE,
                                !.out = MaskAlpha(masking.color, masking.opacity)]
  /\ UNCHANGED <<editorVars, extraction, lastOp, nDuplicates, rendered, loadVars,
                 viewVars, exportVars, call, palletVars>>

NextMask == MaskCall

SpecMask == InitMask /\ [][NextMask]_vars

(***************************************************************************)
(* The combined preview of the source view: the Color layer and the        *)
(* Opacity layer drawn at the atlas size, and for every pixel the red      *)
(* sample of the Opacity layer written into the alpha of the Color pixel.  *)
(***************************************************************************)
\* colorData.data[i + 3] = opacityData.data[i]
SourceViewAlpha(colorPixel, opacityPixel) ==
  <<colorPixel[1], colorPixel[2], colorPixel[3], Clamp8(opacityPixel[1])>>

\* One pixel of each layer: every alpha of the Color pixel against every
\* red sample of the (grayscale) Opacity pixel.
InitSourceView ==
  /\ InitEditor
  /\ PalletNotLoaded
  /\ extraction = NoExtraction
  /\ masking = NoMasking
  /\ \E a \in 0..ByteMax, o \in 0..ByteMax :
       call = [fn |-> "sourceView", done |-> FALSE,
               color |-> <<(a * 7) % (ByteMax + 1), 200, 30, a>>,
               opacity |-> <<o, o, o, ByteMax>>, out |-> Transparent]

SourceViewCall ==
  /\ call.fn = "sourceView"
  /\ ~call.done
  /\ call' = [call EXCEPT !.done = TRUE,
                          !.out = SourceViewAlpha(call.color, call.opacity)]
  /\ UNCHANGED <<editorVars, extraction, lastOp, nDuplicates, rendered, loadVars,
                 viewVars, exportVars, masking, palletVars>>

NextSourceView == SourceViewCall

SpecSourceView == InitSourceView /\ [][NextSourceView]_vars

(***************************************************************************)
(* The layer tabs and the Combined button (shown while an atlas is         *)
(* loaded), and the view model: loads, the view controls, selection of a   *)
(* placed leaf, add, clear and export.                                     *)
(***************************************************************************)
SetActiveLayer(layer) ==
  /\ atlas # NoAtlas
  /\ HasLayer(atlas, layer)
  /\ activeLayer' = layer
  /\ UNCHANGED rendered
  /\ lastOp' = [NoOp EXCEPT !.op = "setActiveLayer"]
  /\ UNCHANGED <<editorVars, extraction, nDuplicates, loadVars, showCombined,
                 exportVars, pureVars>>

SetShowCombined ==
  /\ atlas # NoAtlas
  /\ showCombined' = ~showCombined
  /\ UNCHANGED rendered
  /\ lastOp' = [NoOp EXCEPT !.op = "setShowCombined"]
  /\ UNCHANGED <<editorVars, extraction, nDuplicates, loadVars, activeLayer,
                 exportVars, pureVars>>

NextView ==
  \/ \E a \in {AtlasA, AtlasB} : LoadAtlas(a, 0)
  \/ \E lt \in LayerTypes : SetActiveLayer(lt)
  \/ SetShowCombined
  \/ \E i \in 1..MaxPlaced : SelectPlaced(i)
  \/ \E p \in ClickPoints : HandleSourceClick(p[1], p[2])
  \/ AddRoom(MaxPlaced) /\ AddLeavesToOutput(0)
  \/ ClearAll
  \/ GenerateExportCanvasesCall

SpecView == Init /\ [][NextView]_vars

(***************************************************************************)
(* The export dialog.  exportRun holds the locals of the running           *)
(* exportToSources call (folderName, the keys of canvases in Map order,    *)
(* and the canvases); requests are the fetch calls it has made, each with  *)
(* the image it carries and pending until its response; persisted is what  *)
(* the save endpoint has stored; downloads are the saves the last          *)
(* exportToDownloads call triggered.                                       *)
(***************************************************************************)
\* String.prototype.trim, on the space character.
RECURSIVE Trim(_)
Trim(str) ==
  IF Len(str) = 0 THEN str
  ELSE IF SubSeq(str, 1, 1) = " " THEN Trim(SubSeq(str, 2, Len(str)))
  ELSE IF SubSeq(str, Len(str), Len(str)) = " " THEN Trim(SubSeq(str, 1, Len(str) - 1))
  ELSE str

OpenExportDialog ==
  /\ atlas # NoAtlas
  /\ Len(placedLeaves) > 0
  /\ exportFolderName' = IF atlas.baseName # "" THEN atlas.baseName \o "_tileable"
                         ELSE "leaves_tileable"
  /\ showExportDialog' = TRUE
  /\ rendered' = NoRender
  /\ lastOp' = NoOp
  /\ UNCHANGED <<editorVars, extraction, nDuplicates, loadVars, viewVars, exporting,
                 exportRun, requests, persisted, downloads, pureVars>>

SetExportFolderName(v) ==
  /\ showExportDialog
  /\ exportFolderName' = v
  /\ rendered' = NoRender
  /\ lastOp' = NoOp
  /\ UNCHANGED <<editorVars, extraction, nDuplicates, loadVars, viewVars,
                 showExportDialog, exporting, exportRun, requests, persisted, downloads,
                 pureVars>>

\* The Cancel button.
CloseExportDialog ==
  /\ showExportDialog
  /\ ~exporting
  /\ showExportDialog' = FALSE
  /\ rendered' = NoRender
  /\ lastOp' = NoOp
  /\ UNCHANGED <<editorVars, extraction, nDuplicates, loadVars, viewVars, exporting,
                 exportFolderName, exportRun, requests, persisted, downloads, pureVars>>

\* The layer type before the name.
ExportFileNameLayerFirst(name, layerType) == layerType \o "_" \o name \o ".png"

ExportFileName(name, layerType) == name \o "_" \o layerType \o ".png"
\* The canvas of the request rendered when the request is made.
SaveRequestRenderedLate(run, k) ==
  [file |-> ExportFileName(run.folder, run.layers[k]), layer |-> run.layers[k],
   dataUrl |-> IF run.layers[k] \in DOMAIN GenerateExportCanvases.canvases
               THEN GenerateExportCanvases.canvases[run.layers[k]]
               ELSE EmptyMap,
   state |-> "pending"]

\* canvas.toDataURL('image/png') of the canvas of the Map, and the body of
\* the request.
SaveRequest(run, k) ==
  [file |-> ExportFileName(run.folder, run.layers[k]), layer |-> run.layers[k],
   dataUrl |-> run.canvases[run.layers[k]], state |-> "pending"]

\* Every request of the attempt made at once.
AllRequests(run) == [k \in 1..Len(run.layers) |-> SaveRequest(run, k)]

\* The fetch calls made before the loop first suspends: the first layer's.
FirstRequests(run) == IF Len(run.layers) = 0 THEN <<>> ELSE <<SaveRequest(run, 1)>>

(***************************************************************************)
(* exportToSources up to its first await.  generateExportCanvases is       *)
(* called before the try block: if it throws, nothing is requested and     *)
(* exporting stays set.                                                    *)
(***************************************************************************)
ExportToSources ==
  /\ showExportDialog
  /\ ~exporting
  /\ atlas # NoAtlas
  /\ Trim(exportFolderName) # ""
  /\ exporting' = TRUE
  /\ IF GenerateExportCanvases.raised
     THEN /\ exportRun' = NoExportRun
          /\ requests' = <<>>
          /\ lastOp' = [NoOp EXCEPT !.op = "exportToSources:raised"]
     ELSE /\ exportRun' = [folder |-> Trim(exportFolderName), layers |-> LayerNames(atlas),
                           canvases |-> GenerateExportCanvases.canvases]
          /\ requests' = FirstRequests(exportRun')
          /\ lastOp' = [NoOp EXCEPT !.op = "exportToSources"]
  /\ rendered' = NoRender
  /\ UNCHANGED <<editorVars, extraction, nDuplicates, loadVars, viewVars,
                 showExportDialog, exportFolderName, persisted, downloads, pureVars>>

\* What a rejected fetch carries: an Error with the browser's message, or a
\* value that is no Error.
Rejections == {[isError |-> TRUE, message |-> "Failed to fetch"],
               [isError |-> FALSE, message |-> ""]}

Pending == {i \in 1..Len(requests) : requests[i].state = "pending"}

(***************************************************************************)
(* exportToSources resumed by the response to the pending request i: a     *)
(* response that is ok (the endpoint has stored the file), one that is not *)
(* ok, or a rejection of the fetch.                                        *)
(***************************************************************************)
SaveResponseOk(i) ==
  /\ i \in Pending
  /\ persisted' = persisted \cup {requests[i].file}
  /\ IF Len(requests) < Len(exportRun.layers)
     THEN /\ requests' = Append([requests EXCEPT ![i].state = "ok"],
                                SaveRequest(exportRun, Len(requests) + 1))
          /\ lastOp' = [NoOp EXCEPT !.op = "exportToSources"]
          /\ UNCHANGED <<showExportDialog, error, exporting>>
     ELSE /\ requests' = [requests EXCEPT ![i].state = "ok"]
          /\ showExportDialog' = FALSE
          /\ error' = NoError
          /\ exporting' = FALSE
          /\ lastOp' = [NoOp EXCEPT !.op = "exportToSources:saved"]
  /\ rendered' = NoRender
  /\ UNCHANGED <<atlas, loading, detectedLeaves, selectedLeafIds, threshold, minArea,
                 opacitySource, extractedLeaves, placedLeaves, selectedPlacedId,
                 extraction, nDuplicates, loadVars, viewVars, exportFolderName,
                 exportRun, downloads, pureVars>>

SaveResponseNotOk(i) ==
  /\ i \in Pending
  /\ requests' = [requests EXCEPT ![i].state = "failed"]
  /\ error' = "Failed to save " \o requests[i].file
  /\ exporting' = FALSE
  /\ lastOp' = [NoOp EXCEPT !.op = "exportToSources:failed"]
  /\ rendered' = NoRender
  /\ UNCHANGED <<atlas, loading, detectedLeaves, selectedLeafIds, threshold, minArea,
                 opacitySource, extractedLeaves, placedLeaves, selectedPlacedId,
                 extraction, nDuplicates, loadVars, viewVars, showExportDialog,
                 exportFolderName, exportRun, persisted, downloads, pureVars>>

SaveRejected(i, r) ==
  /\ i \in Pending
  /\ requests' = [requests EXCEPT ![i].state = "rejected"]
  /\ error' = IF r.isError THEN r.message ELSE "Failed to save textures"
  /\ exporting' = FALSE
  /\ lastOp' = [NoOp EXCEPT !.op = "exportToSources:failed"]
  /\ rendered' = NoRender
  /\ UNCHANGED <<atlas, loading, detectedLeaves, selectedLeafIds, threshold, minArea,
                 opacitySource, extractedLeaves, placedLeaves, selectedPlacedId,
                 extraction, nDuplicates, loadVars, viewVars, showExportDialog,
                 exportFolderName, exportRun, persisted, downloads, pureVars>>

(***************************************************************************)
(* exportToDownloads: downloadCanvas for every canvas of the Map, in       *)
(* order.  outcomes[k] is what comes of the k-th save (toDataURL and the   *)
(* click of the link report no failure to the caller).                     *)
(***************************************************************************)
\* The loop left at the first save that fails.
TriggeredUntilFailure(files, outcomes) ==
  LET ok == {k \in 1..Len(files) : \A j \in 1..(k - 1) : outcomes[j] = "saved"}
  IN  [k \in 1..Cardinality(ok) |-> [file |-> files[k], outcome |-> outcomes[k]]]

Triggered(files, outcomes) ==
  [k \in 1..Len(files) |-> [file |-> files[k], outcome |-> outcomes[k]]]

DownloadOutcomes == {"saved", "failed"}

ExportToDownloads(outcomes) ==
  /\ showExportDialog
  /\ ~exporting
  /\ atlas # NoAtlas
  /\ LET baseName == IF exportFolderName # "" THEN exportFolderName
                     ELSE IF atlas.baseName # "" THEN atlas.baseName
                     ELSE "leaves_tileable"
         names == LayerNames(atlas)
         files == [k \in 1..Len(names) |-> ExportFileName(baseName, names[k])]
     IN  IF GenerateExportCanvases.raised
         THEN /\ downloads' = <<>>
              /\ lastOp' = [NoOp EXCEPT !.op = "exportToDownloads:raised"]
              /\ UNCHANGED showExportDialog
         ELSE /\ DOMAIN outcomes = 1..Len(names)
              /\ downloads' = Triggered(files, outcomes)
              /\ lastOp' = [NoOp EXCEPT !.op = "exportToDownloads"]
              /\ showExportDialog' = FALSE
  /\ rendered' = NoRender
  /\ UNCHANGED <<editorVars, extraction, nDuplicates, loadVars, viewVars, exporting,
                 exportFolderName, exportRun, requests, persisted, pureVars>>

(***************************************************************************)
(* The remote export model: loads (while the dialog, a modal, is closed),  *)
(* the dialog, and exportToSources with every outcome of each request.     *)
(***************************************************************************)
MaxLayers == 3
FolderNameInputs == {"", " out"}

NextExport ==
  \/ \E a \in {AtlasB, AtlasF} : ~showExportDialog /\ LoadAtlas(a, 0)
  \/ OpenExportDialog
  \/ \E v \in FolderNameInputs : SetExportFolderName(v)
  \/ CloseExportDialog
  \/ ExportToSources
  \/ \E i \in 1..MaxLayers : SaveResponseOk(i)
  \/ \E i \in 1..MaxLayers : SaveResponseNotOk(i)
  \/ \E i \in 1..MaxLayers, r \in Rejections : SaveRejected(i, r)

SpecExport == Init /\ [][NextExport]_vars

\* Every request eventually returns or rejects: a pending request is
\* answered, by a response or by a rejection of the fetch.
SaveAnswered ==
  \E i \in 1..MaxLayers :
    \/ SaveResponseOk(i)
    \/ SaveResponseNotOk(i)
    \/ \E r \in Rejections : SaveRejected(i, r)

SpecExportFair == Init /\ [][NextExport]_vars /\ WF_vars(SaveAnswered)

(***************************************************************************)
(* Edits under a remote export: loads at any time, and re-detection and    *)
(* the edits of the placement list while an attempt is running, between    *)
(* its requests.  The model follows the first attempt that sends a         *)
(* request.                                                                *)
(***************************************************************************)
SnapshotUpdates == {[rotation |-> 90]}

NextSnapshot ==
  \/ \E a \in {AtlasA, AtlasB} : LoadAtlas(a, 0)
  \/ \E v \in ThresholdInputs : exporting /\ SetThreshold(v)
  \/ SelectPlaced(1)
  \/ \E u \in SnapshotUpdates : exporting /\ UpdateSelectedLeaf(u)
  \/ exporting /\ DeleteSelectedLeaf
  \/ exporting /\ Room(1, MaxAdded) /\ nDuplicates < 1 /\ DuplicateSelectedLeaf(1)
  \/ exporting /\ ClearAll
  \/ OpenExportDialog
  \/ requests = <<>> /\ ExportToSources
  \/ \E i \in 1..MaxLayers : SaveResponseOk(i)
  \/ \E i \in 1..MaxLayers : SaveResponseNotOk(i)

SpecSnapshot == Init /\ [][NextSnapshot]_vars

(***************************************************************************)
(* The local export model: loads, the dialog, and exportToDownloads with   *)
(* every outcome of each save.                                             *)
(***************************************************************************)
NextDownload ==
  \/ \E a \in {AtlasA, AtlasB, AtlasF} : ~showExportDialog /\ LoadAtlas(a, 0)
  \/ OpenExportDialog
  \/ \E v \in FolderNameInputs : SetExportFolderName(v)
  \/ CloseExportDialog
  \/ \E n \in 1..MaxLayers : \E outcomes \in [1..n -> DownloadOutcomes] :
       ExportToDownloads(outcomes)

SpecDownload == Init /\ [][NextDownload]_vars

(***************************************************************************)
(* Both sinks on one atlas: the dialog with the default name or a name     *)
(* typed into it, exportToSources with every request answered ok, and      *)
(* exportToDownloads with every save done.                                 *)
(***************************************************************************)
NextNaming ==
  \/ ~showExportDialog /\ LoadAtlas(AtlasB, 0)
  \/ OpenExportDialog
  \/ \E v \in FolderNameInputs : SetExportFolderName(v)
  \/ CloseExportDialog
  \/ ExportToSources
  \/ \E i \in 1..MaxLayers : SaveResponseOk(i)
  \/ ExportToDownloads([k \in 1..Len(LayerNames(AtlasB)) |-> "saved"])

SpecNaming == Init /\ [][NextNaming]_vars

(***************************************************************************)
(* parseFileName.  File names are strings; the extension and the layer     *)
(* suffix are matched at the end of the name, letter by letter without     *)
(* regard to case (the i flag).                                            *)
(* LAYER_PATTERNS is imported from ./types, which is not among the         *)
(* sources: one suffix per layer type, the type's own name (section 6 of   *)
(* the specification, and the examples of the zero-layer message).         *)
(***************************************************************************)
UpperCase == "ABCDEFGHIJKLMNOPQRSTUVWXYZ"
LowerCase == "abcdefghijklmnopqrstuvwxyz"

\* The same character, or the two cases of one letter.
SameLetter(c, d) ==
  \/ c = d
  \/ \E i \in 1..Len(UpperCase) :
       {c, d} = {SubSeq(UpperCase, i, i), SubSeq(LowerCase, i, i)}

\* regex.test(s) for /suffix$/i, and s.replace(regex, '').
EndsWithNoCase(s, suffix) ==
  /\ Len(s) >= Len(suffix)
  /\ \A k \in 1..Len(suffix) :
       SameLetter(SubSeq(s, Len(s) - Len(suffix) + k, Len(s) - Len(suffix) + k),
                  SubSeq(suffix, k, k))
DropEnd(s, n) == SubSeq(s, 1, Len(s) - n)

Extensions == <<".png", ".jpg", ".jpeg", ".webp">>
HasImageExtension(filename) ==
  \E i \in 1..Len(Extensions) : EndsWithNoCase(filename, Extensions[i])
StripExtension(filename) ==
  IF HasImageExtension(filename)
  THEN LET i == CHOOSE k \in 1..Len(Extensions) : EndsWithNoCase(filename, Extensions[k])
       IN  DropEnd(filename, Len(Extensions[i]))
  ELSE filename

LAYER_PATTERNS ==
  << [layerType |-> "Color", patterns |-> <<"Color">>],
     [layerType |-> "Opacity", patterns |-> <<"Opacity">>],
     [layerType |-> "NormalGL", patterns |-> <<"NormalGL">>],
     [layerType |-> "NormalDX", patterns |-> <<"NormalDX">>],
     [layerType |-> "Roughness", patterns |-> <<"Roughness">>] >>
Separators == {"_", "-"}
NoLayerType == ""

\* new RegExp(`[_-]${pattern}$`, 'i').test(base)
MatchesPattern(base, pattern) ==
  \E sep \in Separators : EndsWithNoCase(base, sep \o pattern)

ParseFileName(filename) ==
  LET base == StripExtension(filename)
      hits == UNION {{<<i, j>> : j \in {k \in 1..Len(LAYER_PATTERNS[i].patterns) :
                                           MatchesPattern(base, LAYER_PATTERNS[i].patterns[k])}} :
                     i \in 1..Len(LAYER_PATTERNS)}
  IN  IF hits = {}
      THEN [name |-> base, layerType |-> NoLayerType]
      ELSE LET first == CHOOSE h \in hits :
                          \A g \in hits : h[1] < g[1] \/ (h[1] = g[1] /\ h[2] <= g[2])
               entry == LAYER_PATTERNS[first[1]]
           IN  [name |-> DropEnd(base, Len(entry.patterns[first[2]]) + 1),
                layerType |-> entry.layerType]

(***************************************************************************)
(* loadAtlasFromFiles.  A file is its name, its MIME type, the size of its *)
(* image and whether the image decodes; the files of one batch show the    *)
(* same blobs.  A load in progress is the batch, the index of the next     *)
(* file and the locals baseName, width, height and layers.                 *)
(***************************************************************************)
File(name, type, w, h, decodes) ==
  [name |-> name, type |-> type, width |-> w, height |-> h, decodes |-> decodes]

StartJob(batch) ==
  [files |-> batch.files, blobs |-> batch.blobs, colorAlpha |-> batch.colorAlpha,
   next |-> 1, baseName |-> "", width |-> 0, height |-> 0, layers |-> <<>>]

\* layers.set(layerType, ...): a Map keeps the position of a key it has.
SetLayer(layers, layer) ==
  IF \E i \in 1..Len(layers) : layers[i].name = layer.name
  THEN [i \in 1..Len(layers) |-> IF layers[i].name = layer.name THEN layer ELSE layers[i]]
  ELSE Append(layers, layer)

\* loadImage(file) resolves, for the file the loop is at (an unmatched file
\* is not decoded).
Decodes(job) ==
  LET file == job.files[job.next]
  IN  ParseFileName(file.name).layerType = NoLayerType \/ file.decodes

\* One turn of the loop.
LoadFile(job) ==
  LET file == job.files[job.next]
      parsed == ParseFileName(file.name)
      named == IF job.baseName = "" THEN [job EXCEPT !.baseName = parsed.name] ELSE job
  IN  IF parsed.layerType = NoLayerType
      THEN [named EXCEPT !.next = @ + 1]
      ELSE [named EXCEPT !.next = @ + 1,
                         !.width = Max(@, file.width),
                         !.height = Max(@, file.height),
                         !.layers = SetLayer(@, Layer(parsed.layerType, file.width,
                                                      file.height))]

\* return { baseName, layers, width, height }
LoadedAtlas(job) ==
  [baseName |-> job.baseName, width |-> job.width, height |-> job.height,
   colorAlpha |-> job.colorAlpha, layers |-> job.layers, blobs |-> job.blobs]

NoLayersMessage ==
  "No valid texture layers found. Check filename patterns (e.g., _Color, _Opacity, _NormalGL)"
DecodeMessage == "Failed to load textures"
NoFilesMessage == "No valid image files found"

\* The whole call: the atlas it returns, or the message of the load that
\* throws (an image's error event is not an Error: the handler's default).
RECURSIVE RunLoad(_)
RunLoad(job) ==
  IF job.next > Len(job.files)
  THEN IF Len(job.layers) = 0
       THEN [ok |-> FALSE, message |-> NoLayersMessage]
       ELSE [ok |-> TRUE, atlas |-> LoadedAtlas(job)]
  ELSE IF Decodes(job) THEN RunLoad(LoadFile(job))
       ELSE [ok |-> FALSE, message |-> DecodeMessage]

LoadAtlasFromFiles(batch) == RunLoad(StartJob(batch))

(***************************************************************************)
(* handleFiles as the steps its awaits cut it into: the start (filter,     *)
(* early return, setSourceFiles, setLoading, setError), one step per file  *)
(* of loadAtlasFromFiles, and the end (the throw of the zero-layer check,  *)
(* or setAtlas and the rest of the try block).  The drop zone stays        *)
(* enabled while a load is decoding, so attempts overlap.                  *)
(***************************************************************************)
StartsWith(s, prefix) == Len(s) >= Len(prefix) /\ SubSeq(s, 1, Len(prefix)) = prefix
IsImageFile(f) == StartsWith(f.type, "image/") \/ HasImageExtension(f.name)

Session == <<atlas, detectedLeaves, extractedLeaves, placedLeaves>>

RemoveAt(s, j) == [i \in 1..(Len(s) - 1) |-> IF i < j THEN s[i] ELSE s[i + 1]]

HandleFiles(batch) ==
  LET fileArray == SelectSeq(batch.files, IsImageFile)
  IN  /\ IF Len(fileArray) = 0
         THEN /\ error' = NoFilesMessage
              /\ lastOp' = [NoOp EXCEPT !.op = "handleFiles:empty"]
              /\ UNCHANGED <<loading, loadVars>>
         ELSE /\ sourceFiles' = [batch EXCEPT !.files = fileArray]
              /\ loading' = TRUE
              /\ error' = NoError
              /\ pendingLoads' = Append(pendingLoads,
                                        StartJob([batch EXCEPT !.files = fileArray]))
              /\ beforeLoad' = Session
              /\ lastOp' = [NoOp EXCEPT !.op = "handleFiles"]
      /\ rendered' = NoRender
      /\ UNCHANGED <<atlas, detectedLeaves, selectedLeafIds, threshold, minArea,
                     opacitySource, extractedLeaves, placedLeaves, selectedPlacedId,
                     extraction, nDuplicates, otherVars>>

LoadFailedKeepingLayers(j, message) ==
  /\ error' = message
  /\ loading' = FALSE
  /\ pendingLoads' = RemoveAt(pendingLoads, j)
  /\ lastOp' = [NoOp EXCEPT !.op = "loadFailed"]
  /\ rendered' = NoRender
  /\ atlas' = IF Len(pendingLoads[j].layers) > 0 THEN LoadedAtlas(pendingLoads[j])
              ELSE atlas
  /\ UNCHANGED <<detectedLeaves, selectedLeafIds, threshold, minArea,
                 opacitySource, extractedLeaves, placedLeaves, selectedPlacedId,
                 extraction, nDuplicates, sourceFiles, beforeLoad, otherVars>>

\* catch and finally of the attempt j.
LoadFailed(j, message) ==
  /\ error' = message
  /\ loading' = FALSE
  /\ pendingLoads' = RemoveAt(pendingLoads, j)
  /\ lastOp' = [NoOp EXCEPT !.op = "loadFailed"]
  /\ rendered' = NoRender
  /\ UNCHANGED <<atlas, detectedLeaves, selectedLeafIds, threshold, minArea,
                 opacitySource, extractedLeaves, placedLeaves, selectedPlacedId,
                 extraction, nDuplicates, sourceFiles, beforeLoad, otherVars>>

LoadStep(j) ==
  /\ j \in 1..Len(pendingLoads)
  /\ pendingLoads[j].next <= Len(pendingLoads[j].files)
  /\ IF Decodes(pendingLoads[j])
     THEN /\ pendingLoads' = [pendingLoads EXCEPT ![j] = LoadFile(@)]
          /\ UNCHANGED <<editorVars, extraction, lastOp, nDuplicates, rendered,
                         sourceFiles, beforeLoad, otherVars>>
     ELSE LoadFailed(j, DecodeMessage)

LoadEnd(j, now) ==
  /\ j \in 1..Len(pendingLoads)
  /\ pendingLoads[j].next > Len(pendingLoads[j].files)
  /\ IF Len(pendingLoads[j].layers) = 0
     THEN LoadFailed(j, NoLayersMessage)
     ELSE /\ AtlasLoaded(LoadedAtlas(pendingLoads[j]), now, error)
          /\ pendingLoads' = RemoveAt(pendingLoads, j)
          /\ UNCHANGED <<sourceFiles, beforeLoad>>

(***************************************************************************)
(* Batches of dropped files.                                               *)
(***************************************************************************)
Png(name, w, h) == File(name, "image/png", w, h, TRUE)

\* The files of AtlasA.
BatchA ==
  [files |-> << Png("leafA_Color.png", 64, 48), Png("leafA_Opacity.png", 64, 48) >>,
   blobs |-> AtlasA.blobs, colorAlpha |-> FALSE]

\* The files of AtlasC (no leaf at the default minArea), named with mixed
\* separators and case, after a text file.
BatchC ==
  [files |-> << File("notes.txt", "text/plain", 0, 0, FALSE),
                File("leafC_Color.jpg", "image/jpeg", 64, 48, TRUE),
                File("leafC-normalgl.JPG", "", 64, 48, TRUE),
                File("leafC_OPACITY.jpeg", "image/jpeg", 64, 48, TRUE) >>,
   blobs |-> AtlasC.blobs, colorAlpha |-> FALSE]

\* The files of AtlasA after a preview image that names no layer.
BatchPreview ==
  [files |-> << Png("preview.png", 16, 16), Png("leafA_Color.png", 64, 48),
                Png("leafA_Opacity.png", 64, 48) >>,
   blobs |-> AtlasA.blobs, colorAlpha |-> FALSE]

\* The files of AtlasB before a thumbnail that names no layer.
BatchThumb ==
  [files |-> << Png("leafB_Color.png", 64, 48), Png("leafB_NormalGL.png", 64, 48),
                Png("leafB_Opacity.png", 64, 48), Png("thumb.webp", 16, 16) >>,
   blobs |-> AtlasB.blobs, colorAlpha |-> FALSE]

\* Color without alpha and a smaller roughness map: no opacity signal.
BatchBark ==
  [files |-> << Png("bark_Color.png", 64, 48), Png("bark_Roughness.png", 32, 24) >>,
   blobs |-> <<>>, colorAlpha |-> FALSE]

\* The Opacity image does not decode.
BatchBroken ==
  [files |-> << Png("leafB_Color.png", 64, 48),
                File("leafB_Opacity.png", "image/png", 64, 48, FALSE) >>,
   blobs |-> AtlasB.blobs, colorAlpha |-> FALSE]

\* Images that name no layer.
BatchUnnamed ==
  [files |-> << Png("photo.png", 64, 48), Png("scan.webp", 64, 48) >>,
   blobs |-> <<>>, colorAlpha |-> FALSE]

\* No image at all.
BatchText ==
  [files |-> << File("readme.md", "text/markdown", 0, 0, FALSE) >>,
   blobs |-> <<>>, colorAlpha |-> FALSE]

\* The files of AtlasA after a larger Color image that the second replaces.
BatchTwice ==
  [files |-> << Png("leafA-color.png", 128, 96), Png("leafA_Color.png", 64, 48),
                Png("leafA_Opacity.png", 64, 48) >>,
   blobs |-> AtlasA.blobs, colorAlpha |-> FALSE]

Batches == {BatchA, BatchC, BatchPreview, BatchThumb, BatchBark, BatchBroken,
            BatchUnnamed, BatchText, BatchTwice}

(***************************************************************************)
(* Loads one at a time: a batch is dropped when no load is decoding.       *)
(***************************************************************************)
NextIngest ==
  \/ \E b \in Batches : Len(pendingLoads) = 0 /\ HandleFiles(b)
  \/ LoadStep(1)
  \/ LoadEnd(1, 0)

SpecIngest == Init /\ [][NextIngest]_vars

(***************************************************************************)
(* Overlapping loads and re-detection: up to MaxPending loads decode at    *)
(* once and end in any order; the minArea control is moved while no load   *)
(* is decoding.                                                            *)
(***************************************************************************)
MinAreaInputs == {DefaultMinArea, 1000}
LoadBatches == {BatchA, BatchC, BatchBark, BatchBroken}

NextLoad ==
  \/ \E b \in LoadBatches : Len(pendingLoads) < MaxPending /\ HandleFiles(b)
  \/ \E j \in 1..MaxPending : LoadStep(j)
  \/ \E j \in 1..MaxPending : LoadEnd(j, 0)
  \/ \E v \in MinAreaInputs : Len(pendingLoads) = 0 /\ SetMinArea(v)

SpecLoad == Init /\ [][NextLoad]_vars

(***************************************************************************)
(* The round trip of one leaf through extractLeafRegion and drawPlacedLeaf *)
(* as renderOutput calls them: the leaf of an atlas is cropped from a      *)
(* layer with one of the paddings the editor uses, placed untransformed    *)
(* at the centre of its bounding box or of its cropped region, and drawn   *)
(* on a filled output canvas, observed over the extent of the layer (all   *)
(* that is drawn lies within it).  The atlases are those whose layers      *)
(* share a size.  An image drawn off the pixel grid is resampled by the    *)
(* browser; SourcePoint takes the nearest source pixel.                    *)
(***************************************************************************)
RoundTripAtlases == {AtlasA, AtlasB, AtlasD, AtlasE}
Paddings == {AutoPadding, SelectPadding}
DefaultLeaves(a) ==
  DetectLeaves(a, DefaultThreshold, DefaultMinArea, GetOpacityData(a).useAlpha)

\* The part of an output canvas over (0, 0)..(w - 1, h - 1).
OutputWindow(w, h) ==
  [raised |-> FALSE, pixels |-> [p \in (0..(w - 1)) \X (0..(h - 1)) |-> Transparent]]

Untransformed(x, y, sourceId) ==
  [id |-> DuplicateId(0), sourceId |-> sourceId, x |-> x, y |-> y,
   rotation |-> 0, scale |-> 10, flipX |-> FALSE, flipY |-> FALSE]

InitRoundTrip ==
  /\ InitEditor
  /\ PalletNotLoaded
  /\ extraction = NoExtraction
  /\ masking = NoMasking
  /\ \E a \in RoundTripAtlases, padding \in Paddings, centre \in {"bounds", "crop"} :
       \E i \in 1..Len(DefaultLeaves(a)), k \in 1..Len(a.layers) :
         call = [fn |-> "roundTrip", done |-> FALSE, atlas |-> a,
                 leaf |-> DefaultLeaves(a)[i], padding |-> padding,
                 layer |-> a.layers[k].name, centre |-> centre,
                 rect |-> NoExtraction.rect, out |-> OutputWindow(0, 0)]

RoundTripCall ==
  /\ call.fn = "roundTrip"
  /\ ~call.done
  /\ LET layer == LayerOf(call.atlas, call.layer)
         rect == ExtractLeafRegion(layer.width, layer.height, call.leaf, call.padding)
         box == IF call.centre = "crop"
                THEN [x |-> rect.x, y |-> rect.y, width |-> rect.w, height |-> rect.h]
                ELSE call.leaf
         placed == Untransformed(Rat(2 * box.x + box.width, 2),
                                 Rat(2 * box.y + box.height, 2), call.leaf.id)
         ctx == FillRect(OutputWindow(layer.width, layer.height),
                         RenderFillStyle(call.layer))
     IN  call' = [call EXCEPT !.done = TRUE, !.rect = rect,
                              !.out = DrawPlacedLeaf(ctx, Crop(call.atlas, call.layer, rect),
                                                     placed, call.leaf)]
  /\ UNCHANGED <<editorVars, extraction, lastOp, nDuplicates, rendered, loadVars,
                 viewVars, exportVars, masking, palletVars>>

NextRoundTrip == RoundTripCall

SpecRoundTrip == InitRoundTrip /\ [][NextRoundTrip]_vars

(***************************************************************************)
(* makeTileable(canvas, wrapSize): a new canvas of the size of the input,  *)
(* the input drawn on it, then the four edge strips of the input drawn     *)
(* over the opposite edges with globalAlpha 0.5.  A buffer is its size and *)
(* all its pixels; globalAlpha is in tenths, as scale is.  Compositing is  *)
(* computed exactly on straight-alpha samples and rounded to 8 bits.       *)
(***************************************************************************)
MaxSide == 5
MaxWrap == 2
GlobalAlphaHalf == 5
GlobalAlphaOne == 10

Buffer(w, h, px) == [width |-> w, height |-> h, pixels |-> px]
Cells(w, h) == (0..(w - 1)) \X (0..(h - 1))
BlankBuffer(w, h) == Buffer(w, h, [p \in Cells(w, h) |-> Transparent])

\* 'source-over' with the source's alpha multiplied by globalAlpha.
SourceOverAlpha(s, d, globalAlpha) ==
  LET sa == s[4] * globalAlpha
      one == ByteMax * GlobalAlphaOne
      a == sa * ByteMax + d[4] * (one - sa)
      Ch(k) == Round(s[k] * sa * ByteMax + d[k] * d[4] * (one - sa), a)
  IN  IF a = 0 THEN Transparent
      ELSE <<Ch(1), Ch(2), Ch(3), Round(a, one)>>

\* ctx.drawImage(image, sx, sy, sw, sh, dx, dy, sw, sh): the source
\* rectangle drawn unscaled with its corner at (dx, dy).
DrawImageRect(ctx, image, sx, sy, sw, sh, dx, dy, globalAlpha) ==
  [ctx EXCEPT !.pixels =
     [p \in DOMAIN ctx.pixels |->
        LET q == <<p[1] - dx + sx, p[2] - dy + sy>>
        IN  IF /\ p[1] - dx \in 0..(sw - 1)
               /\ p[2] - dy \in 0..(sh - 1)
               /\ q \in DOMAIN image.pixels
            THEN SourceOverAlpha(image.pixels[q], ctx.pixels[p], globalAlpha)
            ELSE ctx.pixels[p]]]

\* The left and right strips taken from the output, after the top and
\* bottom strips were blended into it.
MakeTileableFromOutput(canvas, wrapSize) ==
  LET w == canvas.width
      h == canvas.height
      main == DrawImageRect(BlankBuffer(w, h), canvas, 0, 0, w, h, 0, 0, GlobalAlphaOne)
      top == DrawImageRect(main, canvas, 0, 0, w, wrapSize, 0, h - wrapSize, GlobalAlphaHalf)
      bottom == DrawImageRect(top, canvas, 0, h - wrapSize, w, wrapSize, 0, 0, GlobalAlphaHalf)
      left == DrawImageRect(bottom, bottom, 0, 0, wrapSize, h, w - wrapSize, 0, GlobalAlphaHalf)
  IN  DrawImageRect(left, left, w - wrapSize, 0, wrapSize, h, 0, 0, GlobalAlphaHalf)

MakeTileable(canvas, wrapSize) ==
  LET w == canvas.width
      h == canvas.height
      main == DrawImageRect(BlankBuffer(w, h), canvas, 0, 0, w, h, 0, 0, GlobalAlphaOne)
      top == DrawImageRect(main, canvas, 0, 0, w, wrapSize, 0, h - wrapSize, GlobalAlphaHalf)
      bottom == DrawImageRect(top, canvas, 0, h - wrapSize, w, wrapSize, 0, 0, GlobalAlphaHalf)
      left == DrawImageRect(bottom, canvas, 0, 0, wrapSize, h, w - wrapSize, 0, GlobalAlphaHalf)
  IN  DrawImageRect(left, canvas, w - wrapSize, 0, wrapSize, h, 0, 0, GlobalAlphaHalf)

\* The canvases handed to makeTileable: opaque, partly transparent and
\* translucent contents, every pixel of a canvas of its own colour.
Textures == 0..2
Texel(t, x, y) ==
  LET a == CASE t = 0 -> ByteMax
             [] t = 1 -> ((x + 2 * y) % 3) * 127
             [] OTHER -> (x * 40 + y * 90 + 15) % (ByteMax + 1)
  IN  IF a = 0 THEN Transparent
      ELSE <<(x * 37 + y * 11 + t * 53) % (ByteMax + 1), (x * 5 + y * 91) % (ByteMax + 1),
             (200 + x * y) % (ByteMax + 1), a>>
Textured(w, h, t) == Buffer(w, h, [p \in Cells(w, h) |-> Texel(t, p[1], p[2])])

InitTileable ==
  /\ InitEditor
  /\ PalletNotLoaded
  /\ extraction = NoExtraction
  /\ masking = NoMasking
  /\ \E w \in 2..MaxSide, h \in 2..MaxSide, t \in Textures :
       \E wrapSize \in 1..Min(MaxWrap, Min(w, h)) :
         call = [fn |-> "makeTileable", done |-> FALSE,
                 canvas |-> Textured(w, h, t), wrapSize |-> wrapSize,
                 out |-> BlankBuffer(0, 0)]

MakeTileableCall ==
  /\ call.fn = "makeTileable"
  /\ ~call.done
  /\ call' = [call EXCEPT !.done = TRUE,
                          !.out = MakeTileable(call.canvas, call.wrapSize)]
  /\ UNCHANGED <<editorVars, extraction, lastOp, nDuplicates, rendered, loadVars,
                 viewVars, exportVars, masking, palletVars>>

NextTileable == MakeTileableCall

SpecTileable == InitTileable /\ [][NextTileable]_vars

(***************************************************************************)
(* The grid on its own: the instance made for the slot index of a bulk add *)
(* laid out for n leaves (n the number of leaves of autoAddAllLeaves, or   *)
(* the size of the selection of addLeavesToOutput, which fills at most n   *)
(* slots).                                                                 *)
(***************************************************************************)
MaxGrid == 17

InitGrid ==
  /\ InitEditor
  /\ PalletNotLoaded
  /\ extraction = NoExtraction
  /\ masking = NoMasking
  /\ \E n \in 1..MaxGrid : \E index \in 0..(n - 1) :
       call = [fn |-> "grid", done |-> FALSE, n |-> n, index |-> index,
               leaf |-> GridLeaf(0, 0, 1, 0)]

GridCall ==
  /\ call.fn = "grid"
  /\ ~call.done
  /\ call' = [call EXCEPT !.done = TRUE,
                          !.leaf = GridLeaf(0, call.index, call.n, call.index)]
  /\ UNCHANGED <<editorVars, extraction, lastOp, nDuplicates, rendered, loadVars,
                 viewVars, exportVars, masking, palletVars>>

NextGrid == GridCall

SpecGrid == InitGrid /\ [][NextGrid]_vars

(***************************************************************************)
(* The two extraction paths on the same atlas, leaf and layer: the crop    *)
(* autoAddAllLeaves caches on load and the crop extractSelectedLeaves      *)
(* caches for a selected leaf that is not cached yet.                      *)
(***************************************************************************)
\* minArea values of the control: one that keeps the speck of AtlasC too.
PathAreas == {100, DefaultMinArea, 1000}

InitPaths ==
  /\ InitEditor
  /\ PalletNotLoaded
  /\ extraction = NoExtraction
  /\ masking = NoMasking
  /\ \E a \in Atlases, thr \in ThresholdInputs, area \in PathAreas :
       LET leaves == DetectLeaves(a, thr, area, GetOpacityData(a).useAlpha)
       IN  \E i \in 1..Len(leaves), k \in 1..Len(a.layers) :
             call = [fn |-> "paths", done |-> FALSE, atlas |-> a,
                     threshold |-> thr, minArea |-> area, leaves |-> leaves,
                     leaf |-> leaves[i], layer |-> a.layers[k].name,
                     auto |-> NoExtraction.rect, selected |-> NoExtraction.rect]

PathsCall ==
  /\ call.fn = "paths"
  /\ ~call.done
  /\ call' = [call EXCEPT
       !.done = TRUE,
       !.auto = AutoExtracted(call.atlas, call.leaves)[call.leaf.id][call.layer],
       !.selected = ExtractSelected(call.atlas, EmptyMap, <<call.leaf.id>>,
                                    call.leaves)[call.leaf.id][call.layer]]
  /\ UNCHANGED <<editorVars, extraction, lastOp, nDuplicates, rendered, loadVars,
                 viewVars, exportVars, masking, palletVars>>

NextPaths == PathsCall

SpecPaths == InitPaths /\ [][NextPaths]_vars

(***************************************************************************)
(* The pallet editor (PalletEditor.tsx).  A pallet is its materials (a     *)
(* list of names), indicies (name -> index), the three type lists (the     *)
(* indices of each type, in the order pushed) and the layers count that    *)
(* every entry of maps carries.  materialsConfig maps each configured name *)
(* to its type.                                                            *)
(***************************************************************************)
MaterialTypes == <<"solid", "liquid", "transparent">>

\* materialsConfig?.materials[m]?.type || 'solid'
TypeOf(config, m) == IF m \in DOMAIN config THEN config[m] ELSE "solid"

\* newMaterials.forEach((m, i) => { newIndicies[m] = i; }): a later
\* assignment to a key replaces an earlier one.
RebuildIndicies(materials) ==
  [m \in SeqRange(materials) |->
     (CHOOSE i \in 1..Len(materials) :
        materials[i] = m /\ \A j \in (i + 1)..Len(materials) : materials[j] # m) - 1]

\* newMaterials.forEach((m, i) => { newTypes[type].push(i); })
RebuildTypes(materials, config) ==
  [t \in SeqRange(MaterialTypes) |->
     SelectSeq([i \in 1..Len(materials) |-> i - 1],
               LAMBDA k : TypeOf(config, materials[k + 1]) = t)]

Includes(materials, name) == name \in SeqRange(materials)
IndexOf(materials, name) ==
  IF Includes(materials, name)
  THEN (CHOOSE i \in 1..Len(materials) :
          materials[i] = name /\ \A j \in 1..(i - 1) : materials[j] # name) - 1
  ELSE -1
Swapped(materials, i, j) ==
  [k \in 1..Len(materials) |->
     IF k = i + 1 THEN materials[j + 1] ELSE IF k = j + 1 THEN materials[i + 1]
     ELSE materials[k]]

\* The swap left out: only the moved material changes place.
ReorderedWithoutSwap(p, config, i, j) ==
  LET newMaterials == [k \in 1..Len(p.materials) |->
                         IF k = j + 1 THEN p.materials[i + 1] ELSE p.materials[k]]
  IN  [p EXCEPT !.materials = newMaterials,
                !.indicies = RebuildIndicies(newMaterials),
                !.types = RebuildTypes(newMaterials, config)]

\* moveMaterial and setMaterialIndex from the swap on: the layers count of
\* maps is kept.
Reordered(p, config, i, j) ==
  LET newMaterials == Swapped(p.materials, i, j)
  IN  [p EXCEPT !.materials = newMaterials,
                !.indicies = RebuildIndicies(newMaterials),
                !.types = RebuildTypes(newMaterials, config)]

Toggled(p, config, name) ==
  LET newMaterials == IF Includes(p.materials, name)
                      THEN SelectSeq(p.materials, LAMBDA m : m # name)
                      ELSE Append(p.materials, name)
  IN  [materials |-> newMaterials,
       indicies |-> RebuildIndicies(newMaterials),
       types |-> RebuildTypes(newMaterials, config),
       layers |-> Len(newMaterials)]

palletFrame ==
  <<editorVars, extraction, lastOp, nDuplicates, rendered, loadVars, viewVars, exportVars,
    masking, call>>

\* The toggle button of a material that is not configured is disabled.
ToggleMaterial(name) ==
  /\ pallet # NoPallet
  /\ name \in DOMAIN materialsConfig
  /\ pallet' = Toggled(pallet, materialsConfig, name)
  /\ hasChanges' = TRUE
  /\ UNCHANGED <<materialsConfig, saving, pendingSave, savedPallet, palletFrame>>

MoveMaterial(name, direction) ==
  LET index == IndexOf(pallet.materials, name)
      newIndex == IF direction = "up" THEN index - 1 ELSE index + 1
  IN  /\ pallet # NoPallet
      /\ index # -1
      /\ ~(newIndex < 0 \/ newIndex >= Len(pallet.materials))
      /\ pallet' = Reordered(pallet, materialsConfig, index, newIndex)
      /\ hasChanges' = TRUE
      /\ UNCHANGED <<materialsConfig, saving, pendingSave, savedPallet, palletFrame>>

SetMaterialIndex(name, targetIndex) ==
  LET currentIndex == IndexOf(pallet.materials, name)
  IN  /\ pallet # NoPallet
      /\ currentIndex # -1
      /\ ~(targetIndex < 0 \/ targetIndex >= Len(pallet.materials))
      /\ currentIndex # targetIndex
      /\ pallet' = Reordered(pallet, materialsConfig, currentIndex, targetIndex)
      /\ hasChanges' = TRUE
      /\ UNCHANGED <<materialsConfig, saving, pendingSave, savedPallet, palletFrame>>

(***************************************************************************)
(* savePallet up to its await (the Save button is disabled while saving or *)
(* while hasChanges is false), and its resumption by the response: ok, not *)
(* ok, or a rejection of the fetch.                                        *)
(***************************************************************************)
SavePallet ==
  /\ pallet # NoPallet
  /\ ~saving /\ hasChanges
  /\ saving' = TRUE
  /\ pendingSave' = [body |-> pallet]
  /\ UNCHANGED <<pallet, materialsConfig, hasChanges, savedPallet, palletFrame>>

SaveOk ==
  /\ pendingSave # NoSave
  /\ savedPallet' = pendingSave.body
  /\ hasChanges' = FALSE
  /\ saving' = FALSE
  /\ pendingSave' = NoSave
  /\ UNCHANGED <<pallet, materialsConfig, palletFrame>>

\* A response that is not ok, or a rejected fetch: logged, nothing stored.
SaveFailed ==
  /\ pendingSave # NoSave
  /\ saving' = FALSE
  /\ pendingSave' = NoSave
  /\ UNCHANGED <<pallet, materialsConfig, hasChanges, savedPallet, palletFrame>>

\* What loadData finds: the configuration with every material, or without
\* dirt; a pallet that was written with that configuration.
MaterialNames == {"dirt", "water", "glass"}
Configs ==
  {[m \in MaterialNames |->
      CASE m = "dirt" -> "solid" [] m = "water" -> "liquid" [] OTHER -> "transparent"],
   [m \in MaterialNames \ {"dirt"} |-> IF m = "water" THEN "liquid" ELSE "transparent"]}
LoadedMaterials == {<<>>, <<"dirt", "water">>, <<"glass", "dirt", "water">>}
PalletOf(materials, config) ==
  [materials |-> materials, indicies |-> RebuildIndicies(materials),
   types |-> RebuildTypes(materials, config), layers |-> Len(materials)]

InitPallet ==
  /\ InitEditor
  /\ extraction = NoExtraction
  /\ masking = NoMasking
  /\ call = NoCall
  /\ materialsConfig \in Configs
  /\ \E materials \in LoadedMaterials : pallet = PalletOf(materials, materialsConfig)
  /\ savedPallet = pallet
  /\ hasChanges = FALSE
  /\ saving = FALSE
  /\ pendingSave = NoSave

NextPallet ==
  \/ \E name \in MaterialNames : ToggleMaterial(name)
  \/ \E name \in MaterialNames, direction \in {"up", "down"} : MoveMaterial(name, direction)
  \/ \E name \in MaterialNames, targetIndex \in 0..Cardinality(MaterialNames) :
       SetMaterialIndex(name, targetIndex)
  \/ SavePallet
  \/ SaveOk
  \/ SaveFailed

SpecPallet == InitPallet /\ [][NextPallet]_vars

(***************************************************************************)
(* Re-detection under placements: atlases loaded (their leaves cached and  *)
(* placed), the threshold and minArea controls, and instances selected     *)
(* and deleted.                                                            *)
(***************************************************************************)
NextDetect ==
  \/ \E a \in {AtlasA, AtlasD, AtlasE} : LoadAtlas(a, 0)
  \/ \E v \in ThresholdInputs : SetThreshold(v)
  \/ \E v \in MinAreaInputs : SetMinArea(v)
  \/ \E i \in 1..MaxPlaced : SelectPlaced(i)
  \/ DeleteSelectedLeaf

SpecDetect == Init /\ [][NextDetect]_vars

(***************************************************************************)
(*                              Claims                                     *)
(***************************************************************************)
Placed == {placedLeaves[i] : i \in 1..Len(placedLeaves)}
BulkAdded == lastOp.op \in {"autoAddAllLeaves", "addLeavesToOutput"}
\* The instances the last handler appended, in order.
Added == [k \in 1..lastOp.count |-> placedLeaves[lastOp.first + k - 1]]

\* C2: no two instances of placedLeaves have the same id, whatever the clock
\* returns at each operation.
C2_IdsUnique ==
  \A i, j \in 1..Len(placedLeaves) : i # j => placedLeaves[i].id # placedLeaves[j].id

\* C3: extractLeafRegion copies exactly the bounds expanded by the padding on
\* every side and then clamped to the source:
\* [max(0, x-p), min(W, x+width+p)) x [max(0, y-p), min(H, y+height+p)).
C3_ExpandedThenClamped ==
  extraction.done =>
    LET b == extraction.bounds
        p == extraction.padding
        r == extraction.rect
    IN  /\ r.x = Max(0, b.x - p)
        /\ r.x + r.w = Min(extraction.sw, b.x + b.width + p)
        /\ r.y = Max(0, b.y - p)
        /\ r.y + r.h = Min(extraction.sh, b.y + b.height + p)

\* C4: for a LeafBounds inside the source and any padding, the rectangle read
\* has a non-negative origin, at least one pixel each way, and ends inside the
\* source; the returned canvas has that size.
C4_CropInsideSource ==
  extraction.done =>
    LET r == extraction.rect
    IN  /\ r.x >= 0 /\ r.y >= 0
        /\ r.w >= 1 /\ r.h >= 1
        /\ r.x + r.w <= extraction.sw
        /\ r.y + r.h <= extraction.sh

\* A bounds that touches both vertical edges, padded, has been extracted.
C4_Witness ==
  /\ extraction.done
  /\ extraction.padding > 0
  /\ extraction.bounds.x = 0
  /\ extraction.bounds.x + extraction.bounds.width = extraction.sw
  /\ extraction.bounds.y > 0
  /\ extraction.rect.w = extraction.sw

\* C5: after a bulk add given N leaves, the k-th instance it placed (k = 0..)
\* is at (spacing*(k mod cols + 1), spacing*(floor(k/cols) + 1)) with
\* cols = ceil(sqrt(N)) and spacing = OUTPUT_SIZE/(cols+1), and has rotation 0,
\* scale 1 and no flip.
IsCols(c, n) == c >= 1 /\ c * c >= n /\ (c - 1) * (c - 1) < n
C5_GridPlacement ==
  BulkAdded =>
    \A c \in 1..Len(lastOp.given) :
      IsCols(c, Len(lastOp.given)) =>
        \A k \in 0..(lastOp.count - 1) :
          LET leaf == Added[k + 1]
          IN  /\ leaf.x[1] * (c + 1) = OUTPUT_SIZE * ((k % c) + 1) * leaf.x[2]
              /\ leaf.y[1] * (c + 1) = OUTPUT_SIZE * ((k \div c) + 1) * leaf.y[2]
              /\ leaf.rotation = 0 /\ leaf.scale = 10
              /\ ~leaf.flipX /\ ~leaf.flipY

\* An auto-add of five leaves (three columns, second row used) has happened,
\* or an add-selected of a selection of two of which one was placed.
C5_Witness ==
  \/ /\ lastOp.op = "autoAddAllLeaves" /\ lastOp.count = 5
     /\ placedLeaves[5].x = <<512, 1>> /\ placedLeaves[5].y = <<512, 1>>
  \/ /\ lastOp.op = "addLeavesToOutput" /\ Len(lastOp.given) = 2 /\ lastOp.count = 1

\* C6 as stated: addLeavesToOutput creates exactly one instance for every
\* selected id, resolved or not.
C6_EverySelectedIdPlaced ==
  lastOp.op = "addLeavesToOutput" =>
    [k \in 1..lastOp.count |-> Added[k].sourceId] = lastOp.given

\* C6 as amended: addLeavesToOutput creates exactly one instance, in selection
\* order, for every selected id that resolves to a LeafBounds of
\* detectedLeaves, and none for the others.
C6_EveryResolvedIdPlaced ==
  lastOp.op = "addLeavesToOutput" =>
    [k \in 1..lastOp.count |-> Added[k].sourceId]
      = SelectSeq(lastOp.given, LAMBDA e : \E i \in 1..Len(detectedLeaves) :
                                              detectedLeaves[i].id = e)

\* A selection of two ids, the first dangling, has been added.
C6_Witness ==
  /\ lastOp.op = "addLeavesToOutput"
  /\ Len(lastOp.given) = 2
  /\ lastOp.count = 1
  /\ Added[1].sourceId = lastOp.given[2]

\* C7 as stated: every placed leaf has 0 <= rotation < 360.
C7_RotationNormalized ==
  \A leaf \in Placed : 0 <= leaf.rotation /\ leaf.rotation < 360

\* C7 as amended: every placed leaf has 0 <= rotation <= 360 (the value of
\* the control is stored as given).
C7_RotationInControlRange ==
  \A leaf \in Placed : 0 <= leaf.rotation /\ leaf.rotation <= 360

\* An edit has set a rotation of 360 and another a quarter turn.
C7_Witness ==
  /\ \E leaf \in Placed : leaf.rotation = 360
  /\ \E leaf \in Placed : leaf.rotation = 90

\* C8: every placed leaf has scale > 0.
C8_ScalePositive ==
  \A leaf \in Placed : leaf.scale > 0

\* An edit has set the least scale of the control, and the edited leaf has a
\* duplicate that was edited to the largest.
C8_Witness ==
  /\ Len(placedLeaves) = 2
  /\ placedLeaves[1].scale = 1
  /\ placedLeaves[2].scale = 30

\* A placed instance resolves for a layer type when the detection list has a
\* LeafBounds of its sourceId and the cache has its crop of that layer.
Resolves(leaf, lt) ==
  /\ \E i \in 1..Len(detectedLeaves) : detectedLeaves[i].id = leaf.sourceId
  /\ leaf.sourceId \in DOMAIN extractedLeaves
  /\ lt \in DOMAIN extractedLeaves[leaf.sourceId]
ResolvedLeaves(lt) == SelectSeq(placedLeaves, LAMBDA leaf : Resolves(leaf, lt))
LeafCrop(leaf, lt) == extractedLeaves[leaf.sourceId][lt]
Rendered == rendered.op # "none"
BackgroundOf(lt) == IF lt \in {"NormalGL", "NormalDX"} THEN NeutralNormal ELSE Transparent

\* The value of output pixel p after drawing the first n of leaves, without
\* any skipping, over the layer's background.
RECURSIVE Composite(_, _, _, _)
Composite(leaves, lt, n, p) ==
  IF n = 0 THEN BackgroundOf(lt)
  ELSE IF Covers(LeafCrop(leaves[n], lt), leaves[n], p[1], p[2])
       THEN SourceOver(DrawnPixel(LeafCrop(leaves[n], lt), leaves[n], p[1], p[2]),
                       Composite(leaves, lt, n - 1, p))
       ELSE Composite(leaves, lt, n - 1, p)

\* The rendered layers are the layers asked for, and each is the composite of
\* the resolved instances alone.
SkipsUnresolved ==
  /\ rendered.op = "renderOutput" => Cardinality(DOMAIN rendered.canvases) = 1
  /\ rendered.op = "generateExportCanvases" /\ atlas # NoAtlas
       => DOMAIN rendered.canvases = SeqRange(LayerNames(atlas))
  /\ \A lt \in DOMAIN rendered.canvases : \A p \in DOMAIN rendered.canvases[lt] :
       rendered.canvases[lt][p]
         = Composite(ResolvedLeaves(lt), lt, Len(ResolvedLeaves(lt)), p)

\* C1: rendering a layer (renderOutput, generateExportCanvases) never raises,
\* skips every placed leaf without LeafBounds or without a cached crop of the
\* layer and draws the others: the output is the output of the list with the
\* unresolved instances removed.
C1_FailSoft == Rendered => ~rendered.raised /\ SkipsUnresolved

\* C1, the part that holds: a rendering call that returns has skipped exactly
\* the unresolved instances.
C1_SkipsUnresolvedWhenReturning == Rendered /\ ~rendered.raised => SkipsUnresolved

\* Instance j of placedLeaves resolves for lt and covers p with an opaque pixel.
CoversOpaque(j, lt, p) ==
  /\ Resolves(placedLeaves[j], lt)
  /\ Covers(LeafCrop(placedLeaves[j], lt), placedLeaves[j], p[1], p[2])
  /\ DrawnPixel(LeafCrop(placedLeaves[j], lt), placedLeaves[j], p[1], p[2])[4] = 255
CoversAt(k, lt, p) ==
  /\ Resolves(placedLeaves[k], lt)
  /\ Covers(LeafCrop(placedLeaves[k], lt), placedLeaves[k], p[1], p[2])
PixelOf(j, lt, p) ==
  DrawnPixel(LeafCrop(placedLeaves[j], lt), placedLeaves[j], p[1], p[2])

\* C9 (as stated): for any two resolvable instances at indices i < j that both
\* cover an output pixel with fully opaque source pixels, the final pixel is
\* the one drawn by instance j.
C9_LaterOfAnyTwoWins ==
  \A lt \in DOMAIN rendered.canvases : \A p \in DOMAIN rendered.canvases[lt] :
    \A i, j \in 1..Len(placedLeaves) :
      i < j /\ CoversOpaque(i, lt, p) /\ CoversOpaque(j, lt, p)
        => rendered.canvases[lt][p] = PixelOf(j, lt, p)

\* C9 (amended): instances are composited in ascending index: for any two
\* resolvable instances at indices i < j that both cover an output pixel with
\* fully opaque source pixels, and no resolvable instance after j covers that
\* pixel, the final pixel is the one drawn by instance j.
C9_TopmostOpaqueWins ==
  \A lt \in DOMAIN rendered.canvases : \A p \in DOMAIN rendered.canvases[lt] :
    \A i, j \in 1..Len(placedLeaves) :
      /\ i < j /\ CoversOpaque(i, lt, p) /\ CoversOpaque(j, lt, p)
      /\ \A k \in (j + 1)..Len(placedLeaves) : ~CoversAt(k, lt, p)
      => rendered.canvases[lt][p] = PixelOf(j, lt, p)

\* An export in which two instances that draw different opaque pixels overlap
\* at a pixel, the later one on top.
C9_Witness ==
  /\ rendered.op = "generateExportCanvases"
  /\ \E lt \in DOMAIN rendered.canvases : \E p \in DOMAIN rendered.canvases[lt] :
       \E i, j \in 1..Len(placedLeaves) :
         /\ i < j /\ CoversOpaque(i, lt, p) /\ CoversOpaque(j, lt, p)
         /\ PixelOf(i, lt, p) # PixelOf(j, lt, p)
         /\ \A k \in (j + 1)..Len(placedLeaves) : ~CoversAt(k, lt, p)
         /\ rendered.canvases[lt][p] = PixelOf(j, lt, p)

C11_MaskedAlpha ==
  masking.done =>
    LET a == masking.color[4]
        o == masking.opacity[1]
        m == masking.out[4]
    IN  /\ m \in 0..255
        /\ 510 * m - 255 <= 2 * a * o
        /\ 2 * a * o < 510 * m + 255
        /\ (a = 200 /\ o = 128) => m = 100
        /\ \A k \in 1..3 : masking.out[k] = masking.color[k]

\* The pixel of Scenario D, masked.
C11_Witness ==
  /\ masking.done
  /\ masking.color[4] = 200 /\ masking.opacity[1] = 128 /\ masking.out[4] = 100

\* C12: the export does not depend on the view: the buffers of an export,
\* after any changes of showCombined, activeLayer and selectedPlacedId that
\* left atlas, placedLeaves, extractedLeaves and detectedLeaves as they were,
\* are for every layer the buffers an export of the present state gives,
\* each the composite of that layer's own crops.
C12_ExportIgnoresView ==
  (rendered.op = "generateExportCanvases" /\ ~rendered.raised) =>
    /\ rendered.canvases = GenerateExportCanvases.canvases
    /\ SkipsUnresolved

\* An export with a leaf drawn at the centre of the Color buffer, after
\* which the combined view was switched off; a single layer is viewed and a
\* placed leaf is selected.
C12_Witness ==
  /\ rendered.op = "generateExportCanvases"
  /\ lastOp.op = "setShowCombined"
  /\ ~showCombined /\ activeLayer = "Opacity" /\ selectedPlacedId # NoId
  /\ "Color" \in DOMAIN rendered.canvases
  /\ rendered.canvases["Color"][<<512, 512>>][4] = 255

\* C13: in a remote export attempt at most one save request is in flight,
\* the request for a layer is made only after the response (ok) to every
\* earlier one, and the layers are submitted in the atlas's layer order.
C13_OneRequestAtATime ==
  /\ Cardinality(Pending) <= 1
  /\ \A i \in 1..Len(requests) : i < Len(requests) => requests[i].state = "ok"
  /\ exporting =>
       /\ Len(requests) <= Len(LayerNames(atlas))
       /\ \A i \in 1..Len(requests) : requests[i].layer = LayerNames(atlas)[i]

\* The third layer's request in flight, the first two answered.
C13_Witness ==
  /\ exporting
  /\ Len(requests) = 3
  /\ requests[1].state = "ok" /\ requests[2].state = "ok" /\ requests[3].state = "pending"

\* The message has the file name in it.
Mentions(message, file) ==
  \E n \in 0..(Len(message) - Len(file)) : SubSeq(message, n + 1, n + Len(file)) = file
ExportFailed == lastOp.op = "exportToSources:failed"
StoppedAtFailure ==
  /\ Pending = {}
  /\ ~exporting
  /\ requests[Len(requests)].state \in {"failed", "rejected"}
  /\ \A i \in 1..(Len(requests) - 1) :
       requests[i].state = "ok" /\ requests[i].file \in persisted

\* C14: when the submission of a layer fails (response not ok, or request
\* rejected), no later layer of the attempt is submitted, the error reported
\* identifies the file that failed, and the layers delivered before it stay
\* stored.
C14_FailureStopsAndNamesLayer ==
  ExportFailed => StoppedAtFailure /\ Mentions(error, requests[Len(requests)].file)

\* C14, the part that holds: every failure stops the attempt and rolls nothing
\* back, and a response that is not ok is reported with the file's name.
C14_HoldsButForRejections ==
  ExportFailed =>
    /\ StoppedAtFailure
    /\ requests[Len(requests)].state = "failed"
         => Mentions(error, requests[Len(requests)].file)

\* C20: in a local export a save that fails does not block the others: every
\* layer of the atlas has its save triggered, in layer order.
C20_EveryLayerTriggered ==
  lastOp.op = "exportToDownloads" =>
    /\ Len(downloads) = Len(LayerNames(atlas))
    /\ \A k \in 1..Len(downloads) :
         Mentions(downloads[k].file, "_" \o LayerNames(atlas)[k] \o ".png")

\* A local export of three layers whose first save failed and whose last
\* succeeded.
C20_Witness ==
  /\ lastOp.op = "exportToDownloads"
  /\ Len(downloads) = 3
  /\ downloads[1].outcome = "failed" /\ downloads[3].outcome = "saved"

\* A load attempt has just ended: in a throw (zero layers, an image that does
\* not decode), or with no opacity signal.
LoadThrew == lastOp.op = "loadFailed"
LoadWithoutOpacity == lastOp.op = "load" /\ error = NoOpacityMessage

\* C15: when a load attempt ends in a LoadFailure (zero recognized layers, an
\* image that does not decode, or no opacity signal), atlas, detectedLeaves,
\* extractedLeaves and placedLeaves are what they were before the attempt.
C15_FailureKeepsSession ==
  (LoadThrew \/ LoadWithoutOpacity) => Session = beforeLoad

\* C15, the part that holds: a load that throws (zero layers, or an image
\* that does not decode) leaves the four alone.
C15_ThrowKeepsSession == LoadThrew => Session = beforeLoad

\* The files of a batch that reach loadAtlasFromFiles and name a layer.
NamesLayer(f) == ParseFileName(f.name).layerType # NoLayerType
Recognized(batch) == SelectSeq(SelectSeq(batch.files, IsImageFile), NamesLayer)
Greatest(S) == CHOOSE n \in S : \A m \in S : n >= m

\* The atlas a is the complete result of loading the batch: one layer per
\* layer type named in the batch, each the size of the last file naming it,
\* the greatest width and height, a base name parsed from a file of the
\* batch, and the batch's image content.
CompleteResultOf(a, batch) ==
  LET files == Recognized(batch)
      types == [i \in 1..Len(files) |-> ParseFileName(files[i].name).layerType]
      LastOf(lt) == Greatest({i \in 1..Len(files) : types[i] = lt})
  IN  /\ a.blobs = batch.blobs /\ a.colorAlpha = batch.colorAlpha
      /\ Len(files) > 0
      /\ \A i \in 1..Len(files) : files[i].decodes
      /\ SeqRange(LayerNames(a)) = SeqRange(types)
      /\ \A k \in 1..Len(a.layers) :
           /\ a.layers[k].width = files[LastOf(a.layers[k].name)].width
           /\ a.layers[k].height = files[LastOf(a.layers[k].name)].height
           /\ \A m \in 1..Len(a.layers) : a.layers[m].name = a.layers[k].name => m = k
      /\ a.width = Greatest({a.layers[k].width : k \in 1..Len(a.layers)})
      /\ a.height = Greatest({a.layers[k].height : k \in 1..Len(a.layers)})
      /\ a.baseName \in {ParseFileName(batch.files[i].name).name : i \in 1..Len(batch.files)}

\* C16: at every point of any sequence of load attempts, overlapping ones
\* included, the atlas is null or the complete result of one batch; a load
\* that fails part-way through decoding does not change it.
C16_AtlasOfOneBatch ==
  atlas = NoAtlas \/ \E b \in LoadBatches : CompleteResultOf(atlas, b)

\* A load has failed in decoding after its first layer while another load is
\* still decoding and an atlas is loaded.
C16_Witness ==
  /\ atlas # NoAtlas
  /\ LoadThrew /\ error = DecodeMessage
  /\ Len(pendingLoads) = 1

\* C17: after a load that replaces the atlas, every crop of extractedLeaves
\* was cut from the atlas now loaded (so no placement renders a crop of an
\* earlier atlas), whatever number of leaves the new atlas yields.
C17_CropsOfLoadedAtlas ==
  (atlas # NoAtlas /\ lastOp.op \in {"load", "autoAddAllLeaves"}) =>
    \A id \in DOMAIN extractedLeaves : \A lt \in DOMAIN extractedLeaves[id] :
      extractedLeaves[id][lt].src = atlas.baseName

\* C17, the part that holds: a load whose atlas yields leaves replaces the
\* cache and the placements.
C17_ReplacedWhenLeavesFound ==
  lastOp.op = "autoAddAllLeaves" =>
    /\ \A id \in DOMAIN extractedLeaves : \A lt \in DOMAIN extractedLeaves[id] :
         extractedLeaves[id][lt].src = atlas.baseName
    /\ \A i \in 1..Len(placedLeaves) : placedLeaves[i].sourceId \in DOMAIN extractedLeaves

\* An opacity signal is derivable from the atlas.
HasOpacitySignal(a) == HasLayer(a, "Opacity") \/ (HasLayer(a, "Color") /\ a.colorAlpha)

OpacityOutcome ==
  atlas # NoAtlas =>
    /\ opacitySource = "none" <=> ~HasOpacitySignal(atlas)
    /\ ~HasOpacitySignal(atlas) => detectedLeaves = <<>>
    /\ (lastOp.op = "load" /\ ~HasOpacitySignal(atlas)) => error = NoOpacityMessage

\* A step that ends a load or re-detects, on an atlas with an opacity signal,
\* shows no new error.
NoErrorForDetection ==
  ((lastOp' # lastOp /\ lastOp'.op \in {"load", "autoAddAllLeaves"})
      \/ threshold' # threshold \/ minArea' # minArea)
    /\ HasOpacitySignal(atlas')
  => error' = error

\* C18: "no opacity data" and "zero leaves found" are told apart: with no
\* opacity signal opacitySource is 'none', detectedLeaves is empty and a load
\* shows the no-opacity error; with a signal opacitySource names it, and a
\* load or a re-detection shows no error however many leaves it finds.
C18_Distinguishable == []OpacityOutcome /\ [][NoErrorForDetection]_vars

\* A load ended on an atlas with an opacity signal and no leaf, without error.
C18_Witness ==
  /\ lastOp.op = "load" /\ HasOpacitySignal(atlas)
  /\ detectedLeaves = <<>> /\ opacitySource # "none" /\ error = NoError

\* C19: files that name no layer have no effect on the loaded atlas: the
\* batch without them loads to the same baseName, width, height and layers.
C19_UnmatchedFilesIgnored ==
  (atlas # NoAtlas /\ lastOp.op \in {"load", "autoAddAllLeaves"}) =>
    LET without == LoadAtlasFromFiles([sourceFiles EXCEPT !.files = SelectSeq(@, NamesLayer)])
    IN  /\ without.ok
        /\ atlas.baseName = without.atlas.baseName
        /\ atlas.width = without.atlas.width /\ atlas.height = without.atlas.height
        /\ atlas.layers = without.atlas.layers

\* C19, the part that holds: width, height and the layers never depend on
\* such files, and the base name does not when the first file names a layer.
C19_IgnoredButForBaseName ==
  (atlas # NoAtlas /\ lastOp.op \in {"load", "autoAddAllLeaves"}) =>
    LET without == LoadAtlasFromFiles([sourceFiles EXCEPT !.files = SelectSeq(@, NamesLayer)])
    IN  /\ without.ok
        /\ atlas.width = without.atlas.width /\ atlas.height = without.atlas.height
        /\ atlas.layers = without.atlas.layers
        /\ NamesLayer(sourceFiles.files[1]) => atlas.baseName = without.atlas.baseName

\* C21: overlapping loads are rejected: while a load is pending no other
\* load starts, so at most one load is in flight.
C21_OneLoadInFlight == Len(pendingLoads) <= 1

\* The files of the last export: those requested of the endpoint, or those
\* handed to the browser.
RemoteFiles == [k \in 1..Len(requests) |-> requests[k].file]
LocalFiles == [k \in 1..Len(downloads) |-> downloads[k].file]
RemoteDone == lastOp.op = "exportToSources:saved"
LocalDone == lastOp.op = "exportToDownloads"
NamedBy(files, prefix) ==
  /\ Len(files) = Len(atlas.layers)
  /\ \A k \in 1..Len(files) : files[k] = prefix \o "_" \o atlas.layers[k].name \o ".png"
  /\ \A k, m \in 1..Len(atlas.layers) : atlas.layers[k].name = atlas.layers[m].name => k = m

ExactCopy ==
  /\ ~call.out.raised
  /\ \A p \in DOMAIN call.out.pixels :
       call.out.pixels[p] =
         IF /\ call.rect.x <= p[1] /\ p[1] < call.rect.x + call.rect.w
            /\ call.rect.y <= p[2] /\ p[2] < call.rect.y + call.rect.h
         THEN LayerPixel(call.atlas, call.layer, p[1], p[2])
         ELSE RenderFillStyle(call.layer)

\* The bounding box grown by the padding lies within the layer.
PaddedBoxInside ==
  LET layer == LayerOf(call.atlas, call.layer)
  IN  /\ call.leaf.x >= call.padding /\ call.leaf.y >= call.padding
      /\ call.leaf.x + call.leaf.width + call.padding <= layer.width
      /\ call.leaf.y + call.leaf.height + call.padding <= layer.height

RoundTripDone == call.fn = "roundTrip" /\ call.done

\* C23: a leaf extracted and placed at the centre of its bounding box with
\* rotation 0, scale 1 and no flips is composited as an exact copy of its
\* cropped region, at the same coordinates, over the background.
C23_ExactAtBoundsCentre ==
  (RoundTripDone /\ call.centre = "bounds") => ExactCopy

\* C23 as amended: the copy is exact when the leaf is placed at the centre
\* of its cropped region, which is the centre of its bounding box when the
\* padded box lies within the layer.
C23_ExactAtCropCentre ==
  (RoundTripDone /\ (call.centre = "crop" \/ PaddedBoxInside)) => ExactCopy

\* A leaf whose padded box is cut by the layer's edge, placed at the centre
\* of its cropped region.
C23_Witness ==
  /\ RoundTripDone /\ call.centre = "crop" /\ ~PaddedBoxInside
  /\ call.rect.w > 0 /\ call.rect.h > 0

\* A step that moves the threshold or the minArea control.
ParametersChanged == threshold' # threshold \/ minArea' # minArea

\* What detection gives for the atlas under the parameters of the next state.
Redetected ==
  IF HasOpacitySignal(atlas)
  THEN DetectLeaves(atlas, threshold', minArea', ~HasLayer(atlas, "Opacity"))
  ELSE <<>>

\* C24: a change of threshold or minArea re-runs detection and replaces
\* detectedLeaves by its result, and leaves placedLeaves and the extraction
\* cache exactly as they were.
C24_RedetectionKeepsPlacements ==
  [][ParametersChanged =>
        /\ detectedLeaves' = Redetected
        /\ placedLeaves' = placedLeaves
        /\ extractedLeaves' = extractedLeaves
        /\ atlas' = atlas]_vars

\* After a change of threshold, an instance placed before it refers to a leaf
\* id that detection no longer gives, and its crop is still cached.
C24_Witness ==
  /\ threshold # DefaultThreshold
  /\ \E i \in 1..Len(placedLeaves) :
       /\ ~HasBounds(detectedLeaves, placedLeaves[i].sourceId)
       /\ placedLeaves[i].sourceId \in DOMAIN extractedLeaves

LoadEnded == atlas # NoAtlas /\ lastOp.op \in {"load", "autoAddAllLeaves"}
SizeIsMaxOfLayers ==
  /\ atlas.width = Greatest({atlas.layers[k].width : k \in 1..Len(atlas.layers)})
  /\ atlas.height = Greatest({atlas.layers[k].height : k \in 1..Len(atlas.layers)})
OncePerType(layers) ==
  \A k, m \in 1..Len(layers) : layers[k].name = layers[m].name => k = m

\* C25: after a successful load the atlas's width and height are the
\* greatest width and height over the layers it holds, each layer type
\* being held once, also when two files of the batch name the same type.
C25_SizeIsMaxOfLayers ==
  LoadEnded => SizeIsMaxOfLayers /\ OncePerType(atlas.layers)

\* C25, the part that holds: each layer type is held once, with the size of
\* the last file naming it, and the width and height are the greatest over
\* the layers when no type is named twice in the batch.
C25_MaxWhenTypesDistinct ==
  LoadEnded =>
    LET files == Recognized(sourceFiles)
        types == [i \in 1..Len(files) |-> ParseFileName(files[i].name).layerType]
    IN  /\ OncePerType(atlas.layers)
        /\ (\A i, j \in 1..Len(files) : types[i] = types[j] => i = j) => SizeIsMaxOfLayers

\* An updateSelectedLeaf(u) step changes, in the instance at position k, the
\* fields of u and nothing else, and leaves every other position as it was.
UpdatesOnly(k, u) ==
  /\ Len(placedLeaves') = Len(placedLeaves)
  /\ \A i \in 1..Len(placedLeaves) :
       /\ placedLeaves'[i].id = placedLeaves[i].id
       /\ i # k => placedLeaves'[i] = placedLeaves[i]
  /\ \A f \in DOMAIN placedLeaves[k] :
       placedLeaves'[k][f] = IF f \in DOMAIN u THEN u[f] ELSE placedLeaves[k][f]
WithSelectedId == {i \in 1..Len(placedLeaves) : placedLeaves[i].id = selectedPlacedId}

\* C26: updateSelectedLeaf(updates) changes only the given fields of the one
\* instance whose id is the selected id; every other field of it, every
\* other instance and the length and order of placedLeaves are unchanged.
C26_OnlySelectedInstanceChanges ==
  [][\A u \in TransformUpdates :
       UpdateSelectedLeaf(u) => \E k \in WithSelectedId : UpdatesOnly(k, u)]_vars

\* C26, the part that holds: the frame holds whenever one instance has the
\* selected id, and every instance with that id gets the given fields.
C26_HoldsWhenIdSelectsOne ==
  [][\A u \in TransformUpdates :
       UpdateSelectedLeaf(u) =>
         /\ Cardinality(WithSelectedId) = 1 => \E k \in WithSelectedId : UpdatesOnly(k, u)
         /\ \A i \in 1..Len(placedLeaves) :
              placedLeaves'[i] = IF i \in WithSelectedId THEN Merge(placedLeaves[i], u)
                                 ELSE placedLeaves[i]]_vars

\* A step of duplicateSelectedLeaf appends one instance that copies the
\* original's sourceId and transform and lies (50, 50) further, selects the
\* id it gave it, and keeps the instances there were.
AppendsCopy(original) ==
  /\ Len(placedLeaves') = Len(placedLeaves) + 1
  /\ SubSeq(placedLeaves', 1, Len(placedLeaves)) = placedLeaves
  /\ LET copy == placedLeaves'[Len(placedLeaves')]
     IN  /\ \A f \in {"sourceId", "rotation", "scale", "flipX", "flipY"} :
              copy[f] = original[f]
         /\ copy.x = RatAddInt(original.x, 50)
         /\ copy.y = RatAddInt(original.y, 50)
         /\ selectedPlacedId' = copy.id
NewId(original) == placedLeaves'[Len(placedLeaves')].id # original.id

\* C27: duplicateSelectedLeaf appends exactly one instance that copies the
\* selected instance's sourceId, rotation, scale and flips at (x+50, y+50)
\* under an id different from the original's, and selects it; the existing
\* instances keep their content and order.
C27_DuplicateIsNewInstance ==
  [][\A now \in Clock :
       DuplicateSelectedLeaf(now) =>
         LET original == FindPlaced(selectedPlacedId)
         IN  AppendsCopy(original) /\ NewId(original)]_vars

\* C27, the part that holds: all of it but the new id.
C27_DuplicateIsCopy ==
  [][\A now \in Clock :
       DuplicateSelectedLeaf(now) => AppendsCopy(FindPlaced(selectedPlacedId))]_vars

TileableDone == call.fn = "makeTileable" /\ call.done
BandsApart == 2 * call.wrapSize <= Min(call.canvas.width, call.canvas.height)
\* The source pixel blended at 50% over the pixel below it.
HalfOver(s, d) == SourceOverAlpha(s, d, GlobalAlphaHalf)
\* The pixel of the input that the strip drawn over p comes from: the
\* opposite edge's band, at the same offset along the axis.
AcrossY(p) ==
  IF p[2] < call.wrapSize THEN <<p[1], p[2] + call.canvas.height - call.wrapSize>>
  ELSE <<p[1], p[2] - (call.canvas.height - call.wrapSize)>>
AcrossX(p) ==
  IF p[1] < call.wrapSize THEN <<p[1] + call.canvas.width - call.wrapSize, p[2]>>
  ELSE <<p[1] - (call.canvas.width - call.wrapSize), p[2]>>
InRowBand(p) == p[2] < call.wrapSize \/ p[2] >= call.canvas.height - call.wrapSize
InColumnBand(p) == p[1] < call.wrapSize \/ p[1] >= call.canvas.width - call.wrapSize
\* What the input alone gives at p: its pixel, under the opposite row band
\* when p is in a row band, under the opposite column band when p is in a
\* column band.
BlendedFromSource(p) ==
  LET src == call.canvas.pixels
      rows == IF InRowBand(p) THEN HalfOver(src[AcrossY(p)], src[p]) ELSE src[p]
  IN  IF InColumnBand(p) THEN HalfOver(src[AcrossX(p)], rows) ELSE rows

\* With bands that do not meet, the output has the size of the input, every
\* pixel outside the bands is the source pixel, and every band pixel is the
\* source pixel under the opposite bands of the source.
BandsBlendedFromSource ==
  TileableDone /\ BandsApart =>
    /\ call.out.width = call.canvas.width
    /\ call.out.height = call.canvas.height
    /\ DOMAIN call.out.pixels = DOMAIN call.canvas.pixels
    /\ \A p \in DOMAIN call.out.pixels :
         /\ ~InRowBand(p) /\ ~InColumnBand(p) => call.out.pixels[p] = call.canvas.pixels[p]
         /\ call.out.pixels[p] = BlendedFromSource(p)
InputKept == call.fn = "makeTileable" => call'.canvas = call.canvas

\* C28: makeTileable returns a new buffer of the size of its input and
\* leaves the input as it was; with bands that do not meet, every pixel
\* outside the bands equals the source pixel and every band is blended at
\* 50% with the opposite band of the original source, never of the output.
C28_TileableFromSource == []BandsBlendedFromSource /\ [][InputKept]_vars

\* A canvas with an interior, a corner where two bands cross, and an opaque
\* band pixel that comes out as the mean of the two source pixels.
C28_Witness ==
  /\ TileableDone /\ BandsApart
  /\ \E p \in DOMAIN call.out.pixels : ~InRowBand(p) /\ ~InColumnBand(p)
  /\ \E p \in DOMAIN call.out.pixels :
       /\ InRowBand(p) /\ InColumnBand(p)
       /\ call.out.pixels[p] # call.canvas.pixels[p]
  /\ \E p \in DOMAIN call.out.pixels :
       LET s == call.canvas.pixels[AcrossY(p)]
           d == call.canvas.pixels[p]
       IN  /\ InRowBand(p) /\ ~InColumnBand(p)
           /\ s[4] = ByteMax /\ d[4] = ByteMax /\ s # d
           /\ \A k \in 1..3 : call.out.pixels[p][k] = Round(s[k] + d[k], 2)
           /\ call.out.pixels[p][4] = ByteMax

\* C29: every remote export attempt that is started ends with exporting
\* false, every request being answered in the end.
C29_ExportEnds == exporting ~> ~exporting

\* C29, the part that holds: an attempt whose canvases were generated ends,
\* and exporting is set for as long as a request is pending.
C29_EndsOnceRequested == (exporting /\ Pending # {}) ~> ~exporting
C29_ExportingWhilePending == Pending # {} => exporting

SourceViewDone == call.fn = "sourceView" /\ call.done

\* C30: in the combined preview of the source view the alpha of every
\* pixel becomes round(colorAlpha * opacityRed / 255), as in the leaf view.
C30_SourceViewMasksAsLeafView ==
  SourceViewDone => call.out = MaskAlpha(call.color, call.opacity)

\* C30, the part that holds: the alpha is the Opacity red sample, which is
\* the leaf view's alpha where the Color pixel is opaque.
C30_AlphaIsOpacityRed ==
  SourceViewDone =>
    /\ call.out[4] = call.opacity[1]
    /\ \A k \in 1..3 : call.out[k] = call.color[k]
    /\ call.color[4] = ByteMax => call.out = MaskAlpha(call.color, call.opacity)

\* The crop c of layer lt is what one of the two extraction paths cuts
\* out of the atlas a for the bounds b.
CropOfBounds(c, a, lt, b) ==
  \/ c = Crop(a, lt, ExtractLeafRegion(LayerOf(a, lt).width, LayerOf(a, lt).height,
                                       b, AutoPadding))
  \/ c = Crop(a, lt, ExtractLeafRegion(a.width, a.height, b, SelectPadding))
\* The instances the render loops draw: the sourceId resolves and is cached.
Drawn ==
  {i \in 1..Len(placedLeaves) :
     /\ HasBounds(detectedLeaves, placedLeaves[i].sourceId)
     /\ placedLeaves[i].sourceId \in DOMAIN extractedLeaves}
CropsAreCurrent ==
  \A i \in Drawn :
    LET id == placedLeaves[i].sourceId
    IN  \A lt \in DOMAIN extractedLeaves[id] :
          CropOfBounds(extractedLeaves[id][lt], atlas, lt, FindBounds(detectedLeaves, id))

\* C31: whenever a placed leaf is drawn, the crop cached under its sourceId
\* is the crop of the LeafBounds that the sourceId resolves to in the
\* current detectedLeaves.
C31_DrawnCropsAreCurrent == atlas # NoAtlas => CropsAreCurrent

\* C31, the part that holds: the crops are current when a load ends.
C31_CurrentAfterLoad == lastOp.op = "autoAddAllLeaves" => CropsAreCurrent

\* C32: selectedPlacedId is always null or the id of an instance that is in
\* placedLeaves.
C32_SelectedIsPlaced == selectedPlacedId = NoId \/ HasPlaced(selectedPlacedId)

\* C32, the part that holds: every step that sets selectedPlacedId sets it
\* to null or to the id of an instance of the list it leaves.
C32_SelectionSetToPlaced ==
  [][selectedPlacedId' # selectedPlacedId =>
       \/ selectedPlacedId' = NoId
       \/ \E i \in 1..Len(placedLeaves') : placedLeaves'[i].id = selectedPlacedId']_vars

\* Every load that was requested has completed, and the one requested last
\* gave an atlas.
AllLoadsCompleted ==
  /\ Len(pendingLoads) = 0
  /\ sourceFiles # NoFiles
  /\ LoadAtlasFromFiles(sourceFiles).ok

\* C33: when several atlas loads overlap, once all of them have completed
\* the session (here its atlas) is that of the most recently requested
\* load, whatever the order in which they complete.
C33_LastRequestedWins ==
  AllLoadsCompleted => atlas = LoadAtlasFromFiles(sourceFiles).atlas

\* Every request of the attempt carries the canvas and the file name of
\* the attempt's locals, in the order of its layers.
SnapshotSubmitted ==
  \A i \in 1..Len(requests) :
    /\ requests[i].layer = exportRun.layers[i]
    /\ requests[i].file = ExportFileName(exportRun.folder, exportRun.layers[i])
    /\ requests[i].dataUrl = exportRun.canvases[exportRun.layers[i]]
\* The locals are taken from the state in which the attempt starts and
\* stay as they are until it ends.
SnapshotTaken ==
  /\ (~exporting /\ exporting' /\ ~GenerateExportCanvases.raised) =>
       exportRun' = [folder |-> Trim(exportFolderName), layers |-> LayerNames(atlas),
                     canvases |-> GenerateExportCanvases.canvases]
  /\ (exporting /\ exporting') => exportRun' = exportRun

\* C34: a remote export submits a snapshot: edits of placedLeaves,
\* re-detection or a load made while the attempt's requests are pending do
\* not change the content or the set of the files submitted, every layer
\* buffer being rendered from the state at the start of the attempt.
C34_ExportSubmitsSnapshot == []SnapshotSubmitted /\ [][SnapshotTaken]_vars

\* The second request of an attempt is pending after an edit that changed
\* what an export started now would render.
C34_Witness ==
  /\ exporting /\ Len(requests) >= 2 /\ Pending # {}
  /\ ~GenerateExportCanvases.raised
  /\ \E i \in Pending :
       /\ requests[i].layer \in DOMAIN GenerateExportCanvases.canvases
       /\ GenerateExportCanvases.canvases[requests[i].layer] # requests[i].dataUrl

GridDone == call.fn = "grid" /\ call.done
\* The fraction q lies strictly between 0 and OUTPUT_SIZE.
StrictlyInside(q) == 0 < q[1] /\ q[1] < OUTPUT_SIZE * q[2]

\* C35: for every N >= 1, every position assigned by the grid layout lies
\* strictly inside the output canvas, the number of rows used never being
\* more than cols = ceil(sqrt(N)).
C35_GridInsideCanvas ==
  GridDone =>
    /\ StrictlyInside(call.leaf.x) /\ StrictlyInside(call.leaf.y)
    /\ \A c \in 1..call.n : IsCols(c, call.n) => call.index \div c < c

\* The last slot of a grid whose last row is the cols-th and is full.
C35_Witness ==
  /\ GridDone
  /\ call.n = 16 /\ call.index = 15
  /\ call.leaf.x = Rat(4 * OUTPUT_SIZE, 5) /\ call.leaf.y = Rat(4 * OUTPUT_SIZE, 5)

PathsDone == call.fn = "paths" /\ call.done
\* The rectangle of the crop c lies inside that of the crop d.
CropWithin(c, d) ==
  /\ d.x <= c.x /\ c.x + c.w <= d.x + d.w
  /\ d.y <= c.y /\ c.y + c.h <= d.y + d.h

\* C36: the two extraction paths agree: for the same atlas, leaf and layer
\* the crop cached by auto-add and the crop cached by add-selected have
\* the same rectangle and the same content.
C36_PathsAgree == PathsDone => call.auto = call.selected

\* C36, the part that holds: both crops are cut from the same layer of the
\* same atlas, and the auto-add crop lies inside the add-selected crop.
C36_AutoWithinSelected ==
  PathsDone =>
    /\ call.auto.src = call.selected.src /\ call.auto.layer = call.selected.layer
    /\ CropWithin(call.auto, call.selected)

(***************************************************************************)
(* The pallet editor's pallet stays well formed.                           *)
(***************************************************************************)
NoDuplicateMaterials(p) ==
  \A i, j \in 1..Len(p.materials) : p.materials[i] = p.materials[j] => i = j
IndiciesMatch(p) ==
  /\ DOMAIN p.indicies = SeqRange(p.materials)
  /\ \A i \in 1..Len(p.materials) : p.indicies[p.materials[i]] = i - 1
TimesIn(list, k) == Cardinality({q \in 1..Len(list) : list[q] = k})
TypesPartition(p, config) ==
  /\ DOMAIN p.types = SeqRange(MaterialTypes)
  /\ \A t \in DOMAIN p.types : SeqRange(p.types[t]) \subseteq 0..(Len(p.materials) - 1)
  /\ \A k \in 0..(Len(p.materials) - 1) : \A t \in DOMAIN p.types :
       TimesIn(p.types[t], k) = IF t = TypeOf(config, p.materials[k + 1]) THEN 1 ELSE 0

\* C37: after any sequence of toggleMaterial, moveMaterial and
\* setMaterialIndex, pallet.materials has no duplicates, pallet.indicies has
\* exactly the names of pallet.materials as keys with
\* indicies[materials[i]] = i, and the lists solid, liquid and transparent
\* partition the indices 0..n-1 by each material's configured type (solid
\* when it is not configured).
C37_PalletWellFormed ==
  pallet # NoPallet =>
    /\ NoDuplicateMaterials(pallet)
    /\ IndiciesMatch(pallet)
    /\ TypesPartition(pallet, materialsConfig)

\* Glass toggled in, dirt (not configured, so solid) set to the last index
\* and glass moved down, starting from the loaded dirt, water.
C37_Witness ==
  /\ pallet # NoPallet
  /\ savedPallet.materials = <<"dirt", "water">>
  /\ "dirt" \notin DOMAIN materialsConfig
  /\ pallet.materials = <<"water", "glass", "dirt">>
  /\ pallet.types["solid"] = <<2>>
  /\ hasChanges

(***************************************************************************)
(* What "Unsaved changes" reports.                                         *)
(***************************************************************************)
\* C38: hasChanges is false only when the current pallet equals the pallet
\* that was loaded or most recently saved successfully; an edit made while
\* a save request is pending is still reported as unsaved after that save
\* succeeds.
C38_CleanMeansSaved ==
  (pallet # NoPallet /\ ~hasChanges) => pallet = savedPallet

\* C38, the part about failures: a failed save leaves hasChanges true.
C38_FailedSaveKeepsUnsaved == [][SaveFailed => (hasChanges /\ hasChanges')]_vars

====
